---- MODULE Spec2Model ----
(***************************************************************************)
(* DeltaGlider core: DeltaService (put / get / delete / delete_recursive)  *)
(* over an S3-style object store and a local reference cache.              *)
(*                                                                         *)
(* Strings (keys, prefixes, file names) are sequences of tokens, so that   *)
(* startswith / endswith / split("/") are computed as the code computes    *)
(* them: "rel2/v1.zip.delta" is <<"rel","2","/","v1",".zip",".delta">>.     *)
(* Byte contents are records [fmt, v]; v ranges over 0 .. NumContents-1,   *)
(* and v = NumContents is the file of zero bytes.                          *)
(***************************************************************************)
EXTENDS Integers, Sequences, FiniteSets, TLC

VARIABLES
    store,      \* object store of the bucket: key -> [body, meta]
    cache,      \* reference cache: deltaspace prefix -> cached bytes
    last,       \* the last completed operation: its arguments and result
    nops,       \* number of operations performed
    hist,       \* facts about the run so far (explicit reference delete, store failure)
    procs,      \* concurrent put processes (race specification)
    reader,     \* consumer of the reference cache (cache specification)
    now         \* the reading of the clock

vars == <<store, cache, last, nops, hist, procs, reader, now>>

----------------------------------------------------------------------------
(* Bounds *)

NumContents == 2
MaxOps == 3
MaxTime == 2
MaxTtl == 1
MaxIterations == 3
MaxKeys == 1

Contents == 0 .. (NumContents - 1)

----------------------------------------------------------------------------
(* Strings *)

SLASH == "/"
REFERENCE_BIN == "reference.bin"
DELTA_SUFFIX == ".delta"

StartsWith(s, p) == Len(p) <= Len(s) /\ SubSeq(s, 1, Len(p)) = p
EndsWith(s, suf) == Len(suf) <= Len(s) /\ SubSeq(s, Len(s) - Len(suf) + 1, Len(s)) = suf
HasSlash(s) == \E i \in 1 .. Len(s) : s[i] = SLASH

\* position of the last "/" of s (0 when there is none)
LastSlash(s) ==
    IF HasSlash(s) THEN CHOOSE i \in 1 .. Len(s) :
                            s[i] = SLASH /\ \A j \in (i + 1) .. Len(s) : s[j] # SLASH
    ELSE 0

\* "/".join(s.split("/")[:-1])  and  s.rsplit("/", 1)[0]  (s contains a "/")
DirName(s) == SubSeq(s, 1, LastSlash(s) - 1)

\* s.rstrip("/")
RECURSIVE RStripSlash(_)
RStripSlash(s) ==
    IF Len(s) > 0 /\ s[Len(s)] = SLASH THEN RStripSlash(SubSeq(s, 1, Len(s) - 1)) ELSE s

IsDeltaKey(k) == EndsWith(k, <<DELTA_SUFFIX>>)
IsReferenceKey(k) == EndsWith(k, <<SLASH, REFERENCE_BIN>>)

\* byte order of the tokens that can meet at one position of two keys
TokRank(t) ==
    CASE t = DELTA_SUFFIX -> 1
      [] t = ".deltaglider" -> 2
      [] t = ".jpg" -> 3
      [] t = ".zip" -> 4
      [] t = SLASH -> 5
      [] t = "2" -> 6
      [] t = "_" -> 7
      [] t = "photo" -> 8
      [] t = "raw" -> 9
      [] t = REFERENCE_BIN -> 10
      [] t = "rel" -> 11
      [] t = "sub" -> 12
      [] t = "tmp" -> 13
      [] t = "u1" -> 14
      [] t = "u2" -> 15
      [] t = "v1" -> 16
      [] t = "v2" -> 17
      [] OTHER -> 18

RECURSIVE KeyLess(_, _)
KeyLess(a, b) ==
    IF Len(a) = 0 THEN Len(b) > 0
    ELSE IF Len(b) = 0 THEN FALSE
    ELSE IF a[1] = b[1] THEN KeyLess(Tail(a), Tail(b))
    ELSE TokRank(a[1]) < TokRank(b[1])

RECURSIVE SortKeys(_)
SortKeys(S) ==
    IF S = {} THEN <<>>
    ELSE LET m == CHOOSE x \in S : \A y \in S \ {x} : KeyLess(x, y)
         IN <<m>> \o SortKeys(S \ {m})

----------------------------------------------------------------------------
(* Hasher, diff engine *)

Raw(c) == [fmt |-> "raw", v |-> c]

\* the file of zero bytes
EmptyFile == Raw(NumContents)

Sha256(body) == <<"sha256", body.fmt, body.v>>

\* diff.encode(reference, target): the delta blob
Encode(ref, target) == [fmt |-> "vcdiff", v |-> (target.v - ref.v) % (NumContents + 1)]

\* diff.decode(reference, delta): the reconstructed target, or a failure
DecodeOk(ref, delta) == delta.fmt = "vcdiff"
Decode(ref, delta) == [fmt |-> "raw", v |-> (ref.v + delta.v) % (NumContents + 1)]

----------------------------------------------------------------------------
(* Persisted metadata *)

ToolVersion == "deltaglider/0.0.0+unknown"
ZeroDiffNote == "zero-diff (reference identical)"

\* dict.get(k): the set holding the value, empty when the key is absent
MetaGet(meta, k) == IF k \in DOMAIN meta THEN {meta[k]} ELSE {}

\* the dg- prefixed form of a logical metadata name
DgKey(name) ==
    CASE name = "tool" -> "dg-tool"
      [] name = "source_name" -> "dg-source-name"
      [] name = "original_name" -> "dg-original-name"
      [] name = "file_sha256" -> "dg-file-sha256"
      [] name = "ref_key" -> "dg-ref-key"
      [] name = "ref_sha256" -> "dg-ref-sha256"
      [] name = "note" -> "dg-note"
      [] name = "compression" -> "dg-compression"
      [] name = "file_size" -> "dg-file-size"

\* resolve_metadata: the reader helper that accepts both namespaces
ResolveMetadata(meta, name) ==
    IF DgKey(name) \in DOMAIN meta THEN {meta[DgKey(name)]} ELSE MetaGet(meta, name)

\* ReferenceMeta(...).to_dict()
ReferenceMetaToDict(source_name, file_sha256) ==
    (DgKey("tool") :> ToolVersion) @@ (DgKey("source_name") :> source_name)
        @@ (DgKey("file_sha256") :> file_sha256)

\* DeltaMeta(...).to_dict(); note is a set (empty: no note)
DeltaMetaToDict(original_name, file_sha256, ref_key, ref_sha256, note) ==
    LET base == (DgKey("tool") :> ToolVersion) @@ (DgKey("original_name") :> original_name)
                    @@ (DgKey("file_sha256") :> file_sha256) @@ (DgKey("ref_key") :> ref_key)
                    @@ (DgKey("ref_sha256") :> ref_sha256)
    IN IF note = {} THEN base
       ELSE base @@ (DgKey("note") :> (CHOOSE n \in note : TRUE))

\* DeltaMeta.from_dict: fails unless every required field resolves
DeltaMetaRequired == {"tool", "original_name", "file_sha256", "ref_key", "ref_sha256"}
DeltaMetaParses(meta) == \A f \in DeltaMetaRequired : ResolveMetadata(meta, f) # {}
DeltaMetaFromDict(meta) ==
    [f \in DeltaMetaRequired |-> CHOOSE x \in ResolveMetadata(meta, f) : TRUE]

\* is_delta_candidate: membership of the file extension in the delta extensions
DeltaExtensions == {".zip"}
ShouldUseDelta(name) == Len(name) > 0 /\ name[Len(name)] \in DeltaExtensions

\* DeltaSpace.reference_key()
ReferenceKey(prefix) ==
    IF prefix # <<>> THEN prefix \o <<SLASH, REFERENCE_BIN>> ELSE <<REFERENCE_BIN>>

----------------------------------------------------------------------------
(* Object store port and reference cache port *)

StorageHead(st, k) == IF k \in DOMAIN st THEN {st[k]} ELSE {}
StoragePut(st, k, body, meta) == (k :> [body |-> body, meta |-> meta]) @@ st
StorageDelete(st, k) == [x \in DOMAIN st \ {k} |-> st[x]]
\* list(bucket/prefix): the keys that start with the prefix string, in key order
StorageList(st, prefix) == SortKeys({k \in DOMAIN st : StartsWith(k, prefix)})

HasRef(ca, leaf, sha) == leaf \in DOMAIN ca /\ Sha256(ca[leaf]) = sha
WriteRef(ca, leaf, body) == (leaf :> body) @@ ca
Evict(ca, leaf) == [x \in DOMAIN ca \ {leaf} |-> ca[x]]
\* get_validated_ref: the entry's bytes, provided they hash to sha
ValidatedRefOk(ca, leaf, sha) == leaf \in DOMAIN ca /\ Sha256(ca[leaf]) = sha
ValidatedRef(ca, leaf, sha) == ca[leaf]

Call(api, arg) == <<api, arg>>

RefPathBytesUnsafe(validated, ca, leaf) == IF leaf \in DOMAIN ca THEN {ca[leaf]} ELSE {}

\* the bytes the diff engine reads: the service hands it the path that
\* get_validated_ref returned (the empty set: no file to read)
RefPathBytes(validated, ca, leaf) == {validated}

----------------------------------------------------------------------------
(* DeltaService.put *)

DirectKey(prefix, name) == IF prefix # <<>> THEN prefix \o <<SLASH>> \o name ELSE name

DeltaKeyNoSuffix(prefix, name) == DirectKey(prefix, name)

DeltaKey(prefix, name) ==
    IF prefix # <<>> THEN prefix \o <<SLASH>> \o name \o <<DELTA_SUFFIX>>
    ELSE name \o <<DELTA_SUFFIX>>

CacheReferenceUnchecked(st, ca, prefix, expected_sha) ==
    LET ref_key == ReferenceKey(prefix)
        got == StorageHead(st, ref_key)
    IN IF got = {}
       THEN [ok |-> FALSE, err |-> "StoreError", cache |-> ca,
             calls |-> <<Call("storage.get", ref_key)>>]
       ELSE [ok |-> TRUE, err |-> "",
             cache |-> WriteRef(ca, prefix, (CHOOSE o \in got : TRUE).body),
             calls |-> <<Call("storage.get", ref_key), Call("cache.write_ref", prefix)>>]

\* _cache_reference: download reference.bin, verify its SHA, write it to the cache
CacheReference(st, ca, prefix, expected_sha) ==
    LET ref_key == ReferenceKey(prefix)
        got == StorageHead(st, ref_key)
        body == (CHOOSE o \in got : TRUE).body
        calls == <<Call("storage.get", ref_key)>>
    IN IF got = {} THEN [ok |-> FALSE, err |-> "StoreError", cache |-> ca, calls |-> calls]
       ELSE IF Sha256(body) # expected_sha
            THEN [ok |-> FALSE, err |-> "IntegrityMismatchError", cache |-> ca, calls |-> calls]
       ELSE [ok |-> TRUE, err |-> "", cache |-> WriteRef(ca, prefix, body),
             calls |-> calls \o <<Call("cache.write_ref", prefix)>>]

PutFailure(st, ca, err, calls) ==
    [store |-> st, cache |-> ca,
     res |-> [ok |-> FALSE, err |-> err, operation |-> "", key |-> <<>>,
              ref_sha256 |-> {}, cache_hit |-> FALSE, warnings |-> <<>>,
              calls |-> calls]]

DirectMetadataNoCompression(name, file) ==
    ("tool" :> ToolVersion) @@ ("original_name" :> name) @@ ("file_sha256" :> Sha256(file))

\* the metadata _upload_direct writes
DirectMetadata(name, file) ==
    ("tool" :> ToolVersion) @@ ("original_name" :> name)
        @@ ("file_sha256" :> Sha256(file)) @@ ("compression" :> "none")

\* _upload_direct
UploadDirect(st, ca, prefix, name, file) ==
    LET key == DirectKey(prefix, name)
        metadata == DirectMetadata(name, file)
    IN [store |-> StoragePut(st, key, file, metadata), cache |-> ca,
        res |-> [ok |-> TRUE, err |-> "", operation |-> "upload_direct", key |-> key,
                 ref_sha256 |-> {}, cache_hit |-> FALSE, warnings |-> <<>>,
                 calls |-> <<Call("storage.put", key)>>]]

\* the SHA a zero-delta is bound to after the re-head of _create_reference
BoundRefSha(ref_head, file_sha256) ==
    LET existing_sha == IF ref_head = {} THEN {}
                        ELSE ResolveMetadata((CHOOSE o \in ref_head : TRUE).meta, "file_sha256")
    IN IF ref_head # {} /\ existing_sha # {} /\ existing_sha # {file_sha256}
       THEN CHOOSE x \in existing_sha : TRUE
       ELSE file_sha256

CacheLocalFileSkipped(ca, prefix, file) == ca

\* _create_reference caches the local file as the deltaspace's reference
CacheLocalFile(ca, prefix, file) == WriteRef(ca, prefix, file)

\* _create_reference
CreateReference(st, ca, prefix, name, file) ==
    LET ref_key == ReferenceKey(prefix)
        file_sha256 == Sha256(file)
        st1 == StoragePut(st, ref_key, file, ReferenceMetaToDict(name, file_sha256))
        ref_sha256 == BoundRefSha(StorageHead(st1, ref_key), file_sha256)
        ca1 == CacheLocalFile(ca, prefix, file)
        delta_key == DeltaKey(prefix, name)
        zero_delta == Encode(file, file)
        delta_meta == DeltaMetaToDict(name, file_sha256, ref_key, ref_sha256, {ZeroDiffNote})
    IN [store |-> StoragePut(st1, delta_key, zero_delta, delta_meta), cache |-> ca1,
        res |-> [ok |-> TRUE, err |-> "", operation |-> "create_reference", key |-> ref_key,
                 ref_sha256 |-> {}, cache_hit |-> FALSE, warnings |-> <<>>,
                 calls |-> <<Call("storage.put", ref_key), Call("storage.head", ref_key),
                             Call("cache.write_ref", prefix),
                             Call("diff.encode", delta_key),
                             Call("storage.put", delta_key)>>]]

\* the reference bytes _create_delta hands to the encoder
EncodeSource(ca, prefix, ref_sha256) ==
    CHOOSE b \in RefPathBytes(ValidatedRef(ca, prefix, ref_sha256), ca, prefix) : TRUE

\* st_size of a file: a raw file has two units (the empty file none), a delta one unit
\* per unit of difference plus its header
StatSize(body) ==
    IF body.fmt = "vcdiff" THEN body.v + 1 ELSE IF body = EmptyFile THEN 0 ELSE 2

\* delta_ratio = delta_size / file_size is a float division: it raises
\* ZeroDivisionError when file_size is 0
DeltaRatioDefined(delta_size, file_size) == file_size # 0

\* the service's max_ratio (0.5), as a fraction
DefaultMaxRatio == [num |-> 1, den |-> 2]

\* delta_size / file_size > max_ratio
RatioExceeded(delta_size, file_size, max_ratio) ==
    delta_size * max_ratio.den > max_ratio.num * file_size

PolicyViolationSilent(delta_size, file_size, max_ratio) == <<>>

\* the warnings _create_delta emits for the delta ratio
PolicyViolation(delta_size, file_size, max_ratio) ==
    IF RatioExceeded(delta_size, file_size, max_ratio)
    THEN <<"PolicyViolationWarning">> ELSE <<>>

\* _create_delta (max_ratio: the service's, put is called without one)
CreateDelta(st, ca, prefix, name, file, ref_head) ==
    LET ref_key == ReferenceKey(prefix)
        ref_sha == ResolveMetadata(ref_head.meta, "file_sha256")
        ref_sha256 == CHOOSE x \in ref_sha : TRUE
        cache_hit == HasRef(ca, prefix, ref_sha256)
        cr == IF cache_hit THEN [ok |-> TRUE, err |-> "", cache |-> ca, calls |-> <<>>]
              ELSE CacheReference(st, ca, prefix, ref_sha256)
        calls1 == <<Call("cache.has_ref", prefix)>> \o cr.calls
        calls2 == calls1 \o <<Call("cache.get_validated_ref", prefix)>>
        delta_key == DeltaKey(prefix, name)
        delta == Encode(EncodeSource(cr.cache, prefix, ref_sha256), file)
        delta_meta == DeltaMetaToDict(name, Sha256(file), ref_key, ref_sha256, {})
    IN IF ref_sha = {} THEN PutFailure(st, ca, "ValueError", <<>>)
       ELSE IF ~cr.ok THEN PutFailure(st, cr.cache, cr.err, calls1)
       ELSE IF ~ValidatedRefOk(cr.cache, prefix, ref_sha256)
            THEN PutFailure(st, cr.cache, "CacheMissError", calls2)
       ELSE IF ~DeltaRatioDefined(StatSize(delta), StatSize(file))
            THEN PutFailure(st, cr.cache, "ZeroDivisionError",
                            calls2 \o <<Call("diff.encode", delta_key)>>)
       ELSE [store |-> StoragePut(st, delta_key, delta, delta_meta), cache |-> cr.cache,
             res |-> [ok |-> TRUE, err |-> "", operation |-> "create_delta",
                      key |-> delta_key, ref_sha256 |-> {ref_sha256},
                      cache_hit |-> cache_hit,
                      warnings |-> PolicyViolation(StatSize(delta), StatSize(file),
                                                   DefaultMaxRatio),
                      calls |-> calls2 \o <<Call("diff.encode", delta_key),
                                             Call("storage.put", delta_key)>>]]

PutOpNoHead(st, ca, prefix, name, file) ==
    IF ~ShouldUseDelta(name) THEN UploadDirect(st, ca, prefix, name, file)
    ELSE LET r == CreateReference(st, ca, prefix, name, file)
         IN [r EXCEPT !.res.calls = <<Call("storage.head", ReferenceKey(prefix))>> \o @]

\* put: classify by extension, then direct upload, new reference or delta
PutOp(st, ca, prefix, name, file) ==
    IF ~ShouldUseDelta(name) THEN UploadDirect(st, ca, prefix, name, file)
    ELSE LET ref_key == ReferenceKey(prefix)
             ref_head == StorageHead(st, ref_key)
             r == IF ref_head = {} THEN CreateReference(st, ca, prefix, name, file)
                  ELSE CreateDelta(st, ca, prefix, name, file, CHOOSE o \in ref_head : TRUE)
         IN [r EXCEPT !.res.calls = <<Call("storage.head", ref_key)>> \o @]

----------------------------------------------------------------------------
(* DeltaService.get *)

DirectVerifiesAlways(expected_sha, sink) == expected_sha # {}

\* _get_direct hashes what it wrote when the metadata resolves file_sha256 and the
\* sink is a file path
DirectVerifies(expected_sha, sink) == expected_sha # {} /\ sink = "path"

\* _get_direct: stream the stored bytes to the sink, then verify when possible
GetDirect(st, ca, key, obj_head, sink) ==
    LET body == st[key].body
        expected_sha == ResolveMetadata(obj_head.meta, "file_sha256")
        verifies == DirectVerifies(expected_sha, sink)
        calls == <<Call("storage.head", key), Call("storage.get", key),
                   Call("sink.write", key)>>
                    \o (IF verifies THEN <<Call("hasher.sha256", key)>> ELSE <<>>)
        mismatch == verifies /\ {Sha256(body)} # expected_sha
    IN [ok |-> ~mismatch, err |-> IF mismatch THEN "IntegrityMismatchError" ELSE "",
        sink |-> {body}, verified |-> verifies,
        cache |-> ca, cache_hit |-> FALSE, calls |-> calls]

GetFailure(ca, err, calls) ==
    [ok |-> FALSE, err |-> err, sink |-> {}, verified |-> FALSE,
     cache |-> ca, cache_hit |-> FALSE, calls |-> calls]

\* the deltaspace prefix get derives from the delta's ref_key
DeltaspaceOfRefKey(ref_key) == IF HasSlash(ref_key) THEN DirName(ref_key) ELSE <<>>

\* the reference bytes get hands to the decoder
DecodeSource(ca, prefix, ref_sha256) ==
    CHOOSE b \in RefPathBytes(ValidatedRef(ca, prefix, ref_sha256), ca, prefix) : TRUE

DeltaSinkUnverified(out, actual_sha, expected_sha) == {out}

\* what the delta branch of get writes to the sink: the decoded output, once its hash
\* was found equal to the delta's file_sha256
DeltaSink(out, actual_sha, expected_sha) == IF actual_sha = expected_sha THEN {out} ELSE {}

\* get, delta branch (the object carries dg-file-sha256 and is not compression=none)
GetDelta(st, ca, key, obj_head) ==
    LET delta_meta == DeltaMetaFromDict(obj_head.meta)
        prefix == DeltaspaceOfRefKey(delta_meta.ref_key)
        cache_hit == HasRef(ca, prefix, delta_meta.ref_sha256)
        cr == IF cache_hit THEN [ok |-> TRUE, err |-> "", cache |-> ca, calls |-> <<>>]
              ELSE CacheReference(st, ca, prefix, delta_meta.ref_sha256)
        calls1 == <<Call("storage.head", key), Call("cache.has_ref", prefix)>> \o cr.calls
        calls2 == calls1 \o <<Call("cache.get_validated_ref", prefix)>>
        calls3 == calls2 \o <<Call("storage.get", key)>>
        delta == st[key].body
        ref == DecodeSource(cr.cache, prefix, delta_meta.ref_sha256)
        out == Decode(ref, delta)
        calls4 == calls3 \o <<Call("diff.decode", key)>>
        calls5 == calls4 \o <<Call("hasher.sha256", key)>>
        emitted == DeltaSink(out, Sha256(out), delta_meta.file_sha256)
        calls6 == calls5 \o (IF emitted # {} THEN <<Call("sink.write", key)>> ELSE <<>>)
    IN IF ~DeltaMetaParses(obj_head.meta)
       THEN GetFailure(ca, "MetadataError", <<Call("storage.head", key)>>)
       ELSE IF ~cr.ok THEN GetFailure(cr.cache, cr.err, calls1)
       ELSE IF ~ValidatedRefOk(cr.cache, prefix, delta_meta.ref_sha256)
            THEN GetFailure(cr.cache, "CacheMissError", calls2)
       ELSE IF ~DecodeOk(ref, delta) THEN GetFailure(cr.cache, "DiffDecodeError", calls4)
       ELSE IF emitted = {}
            THEN GetFailure(cr.cache, "IntegrityMismatchError", calls6)
       ELSE [ok |-> TRUE, err |-> "", sink |-> emitted, verified |-> TRUE,
             cache |-> cr.cache, cache_hit |-> cache_hit, calls |-> calls6]

\* get: head, then foreign / direct / delta
GetOp(st, ca, key, sink) ==
    LET head == StorageHead(st, key)
        obj_head == CHOOSE o \in head : TRUE
    IN IF head = {} THEN GetFailure(ca, "NotFoundError", <<Call("storage.head", key)>>)
       ELSE IF "dg-file-sha256" \notin DOMAIN obj_head.meta
            THEN GetDirect(st, ca, key, obj_head, sink)
       ELSE IF MetaGet(obj_head.meta, "compression") = {"none"}
            THEN GetDirect(st, ca, key, obj_head, sink)
       ELSE GetDelta(st, ca, key, obj_head)

VerifyFailure(ca, err, calls) ==
    [ok |-> FALSE, err |-> err, valid |-> FALSE, expected_sha256 |-> {},
     actual_sha256 |-> {}, cache |-> ca, calls |-> calls]

\* verify after its get returned g: re-head, parse the metadata as DeltaMeta, hash the
\* scratch file and compare
VerifyAfterGet(st, key, g) ==
    LET delta_head == StorageHead(st, key)
        meta == (CHOOSE o \in delta_head : TRUE).meta
        calls == g.calls \o <<Call("storage.head", key)>>
    IN IF ~g.ok THEN VerifyFailure(g.cache, g.err, g.calls)
       ELSE IF delta_head = {} THEN VerifyFailure(g.cache, "NotFoundError", calls)
       ELSE IF ~DeltaMetaParses(meta) THEN VerifyFailure(g.cache, "MetadataError", calls)
       ELSE LET actual_sha == Sha256(CHOOSE b \in g.sink : TRUE)
                expected == DeltaMetaFromDict(meta).file_sha256
            IN [ok |-> TRUE, err |-> "", valid |-> actual_sha = expected,
                expected_sha256 |-> {expected}, actual_sha256 |-> {actual_sha},
                cache |-> g.cache, calls |-> calls \o <<Call("hasher.sha256", key)>>]

\* verify: get into a scratch file, then the comparison
VerifyOp(st, ca, key) ==
    CHOOSE r \in {VerifyAfterGet(st, key, g) : g \in {GetOp(st, ca, key, "path")}} : TRUE

----------------------------------------------------------------------------
(* DeltaService.delete *)

SeqToSet(s) == {s[i] : i \in 1 .. Len(s)}

DeleteResult(st, ca, ok, err, type, dependent_deltas, warnings, cleaned_reference, calls) ==
    [store |-> st, cache |-> ca,
     res |-> [ok |-> ok, err |-> err, deleted |-> ok, type |-> type,
              dependent_deltas |-> dependent_deltas, warnings |-> warnings,
              cleaned_reference |-> cleaned_reference, calls |-> calls]]

\* the deltas _delete_reference counts as depending on the reference at key
DependentDeltas(st, key) ==
    LET prefix == IF HasSlash(key) THEN DirName(key) ELSE <<>>
    IN {k \in SeqToSet(StorageList(st, prefix)) :
            /\ IsDeltaKey(k) /\ k # key
            /\ MetaGet(st[k].meta, "ref_key") = {key}}

\* _delete_reference
DeleteReference(st, ca, key) ==
    LET prefix == IF HasSlash(key) THEN DirName(key) ELSE <<>>
        dependent_deltas == DependentDeltas(st, key)
        n == Cardinality(dependent_deltas)
        ca1 == IF HasSlash(key) THEN Evict(ca, DirName(key)) ELSE ca
    IN DeleteResult(StorageDelete(st, key), ca1, TRUE, "", "reference", n,
                    IF n > 0 THEN 1 ELSE 0, {},
                    <<Call("storage.head", key), Call("storage.list", prefix),
                      Call("storage.delete", key)>>
                        \o (IF HasSlash(key) THEN <<Call("cache.evict", DirName(key))>>
                            ELSE <<>>))

RemainingDeltasSelf(st, key) ==
    {k \in SeqToSet(StorageList(st, DirName(key))) : IsDeltaKey(k) /\ k = key}

\* the deltas _delete_delta finds remaining after the delete of key
RemainingDeltas(st, key) ==
    {k \in SeqToSet(StorageList(st, DirName(key))) : IsDeltaKey(k) /\ k # key}

\* _delete_delta
DeleteDelta(st, ca, key) ==
    LET st1 == StorageDelete(st, key)
        deltaspace_prefix == DirName(key)
        ref_key == deltaspace_prefix \o <<SLASH, REFERENCE_BIN>>
        calls1 == <<Call("storage.head", key), Call("storage.delete", key)>>
        calls2 == calls1 \o <<Call("storage.list", deltaspace_prefix)>>
        calls3 == calls2 \o <<Call("storage.head", ref_key)>>
    IN IF ~HasSlash(key) THEN DeleteResult(st1, ca, TRUE, "", "delta", 0, 0, {}, calls1)
       ELSE IF RemainingDeltas(st1, key) # {}
            THEN DeleteResult(st1, ca, TRUE, "", "delta", 0, 0, {}, calls2)
       ELSE IF StorageHead(st1, ref_key) = {}
            THEN DeleteResult(st1, ca, TRUE, "", "delta", 0, 0, {}, calls3)
       ELSE DeleteResult(StorageDelete(st1, ref_key), Evict(ca, deltaspace_prefix),
                         TRUE, "", "delta", 0, 0, {ref_key},
                         calls3 \o <<Call("storage.delete", ref_key),
                                     Call("cache.evict", deltaspace_prefix)>>)

\* delete: dispatch on the key and on the object's metadata
DeleteOp(st, ca, key) ==
    LET calls == <<Call("storage.head", key), Call("storage.delete", key)>>
    IN IF StorageHead(st, key) = {}
       THEN DeleteResult(st, ca, FALSE, "NotFoundError", "", 0, 0, {},
                         <<Call("storage.head", key)>>)
       ELSE IF IsReferenceKey(key) THEN DeleteReference(st, ca, key)
       ELSE IF IsDeltaKey(key) THEN DeleteDelta(st, ca, key)
       ELSE IF MetaGet(st[key].meta, "compression") = {"none"}
            THEN DeleteResult(StorageDelete(st, key), ca, TRUE, "", "direct", 0, 0, {}, calls)
       ELSE DeleteResult(StorageDelete(st, key), ca, TRUE, "", "unknown", 0, 0, {}, calls)

----------------------------------------------------------------------------
(* DeltaService.delete_recursive *)

NormalizePrefix(prefix) ==
    IF prefix # <<>> /\ ~EndsWith(prefix, <<SLASH>>) THEN prefix \o <<SLASH>> ELSE prefix

\* _classify_objects_for_deletion (prefix already normalized)
ClassifyObjectsForDeletion(st, prefix) ==
    LET listed == SelectSeq(StorageList(st, prefix),
                            LAMBDA k : ~(prefix # <<>> /\ ~StartsWith(k, prefix)))
        isRef(k) == IsReferenceKey(k)
        isDelta(k) == ~isRef(k) /\ IsDeltaKey(k)
        isDirect(k) == /\ ~isRef(k) /\ ~IsDeltaKey(k)
                       /\ MetaGet(st[k].meta, "compression") = {"none"}
        isOther(k) == ~isRef(k) /\ ~IsDeltaKey(k) /\ ~isDirect(k)
        deltas == SelectSeq(listed, isDelta)
    IN [references |-> SelectSeq(listed, isRef),
        deltas |-> deltas,
        direct_uploads |-> SelectSeq(listed, isDirect),
        other_objects |-> SelectSeq(listed, isOther),
        affected_deltaspaces |-> {DirName(k) : k \in {d \in SeqToSet(deltas) : HasSlash(d)}}]

\* the references of affected deltaspaces that the classification did not list
ParentReferences(st, references, affected_deltaspaces) ==
    SelectSeq(SortKeys({ds \o <<SLASH, REFERENCE_BIN>> : ds \in affected_deltaspaces}),
              LAMBDA r : r \notin SeqToSet(references) /\ StorageHead(st, r) # {})

\* phase 2: delete every key in order; a failing delete is counted, not raised
RECURSIVE DeleteObjects(_, _, _)
DeleteObjects(st, keys, fail) ==
    IF keys = <<>> THEN [store |-> st, deleted_count |-> 0, failed_count |-> 0, calls |-> <<>>]
    ELSE LET key == Head(keys)
             failed == key \in fail
             rest == DeleteObjects(IF failed THEN st ELSE StorageDelete(st, key),
                                   Tail(keys), fail)
         IN [store |-> rest.store,
             deleted_count |-> rest.deleted_count + (IF failed THEN 0 ELSE 1),
             failed_count |-> rest.failed_count + (IF failed THEN 1 ELSE 0),
             calls |-> <<Call("storage.delete", key)>> \o rest.calls]

\* has_remaining_files of _delete_references_if_safe
HasRemainingFiles(st, prefix, ref_key) ==
    LET deltaspace_prefix == SubSeq(ref_key, 1, Len(ref_key) - 2)
    IN \E k \in SeqToSet(StorageList(st, deltaspace_prefix)) :
            ~(prefix # <<>> /\ StartsWith(k, prefix)) /\ k # ref_key

\* _delete_references_if_safe
RECURSIVE DeleteReferencesIfSafe(_, _, _, _)
DeleteReferencesIfSafe(st, prefix, references, fail) ==
    IF references = <<>>
    THEN [store |-> st, deleted_count |-> 0, failed_count |-> 0, references_kept |-> 0,
          calls |-> <<>>]
    ELSE LET ref_key == Head(references)
             keep == HasRemainingFiles(st, prefix, ref_key)
             failed == ~keep /\ ref_key \in fail
             st1 == IF keep \/ failed THEN st ELSE StorageDelete(st, ref_key)
             rest == DeleteReferencesIfSafe(st1, prefix, Tail(references), fail)
         IN [store |-> rest.store,
             deleted_count |-> rest.deleted_count + (IF keep \/ failed THEN 0 ELSE 1),
             failed_count |-> rest.failed_count + (IF failed THEN 1 ELSE 0),
             references_kept |-> rest.references_kept + (IF keep THEN 1 ELSE 0),
             calls |-> (IF keep THEN <<>> ELSE <<Call("storage.delete", ref_key)>>)
                          \o rest.calls]

ReferencesDeletedUnadjusted(references, references_kept) == Len(references)

\* result.references_deleted after phase 3
ReferencesDeleted(references, references_kept) == Len(references) - references_kept

\* delete_recursive; fail is the set of keys whose storage.delete raises
DeleteRecursiveOp(st, ca, raw_prefix, fail) ==
    LET prefix == NormalizePrefix(raw_prefix)
        cl == ClassifyObjectsForDeletion(st, prefix)
        references == cl.references
                        \o ParentReferences(st, cl.references, cl.affected_deltaspaces)
        p2 == DeleteObjects(st, cl.other_objects \o cl.direct_uploads \o cl.deltas, fail)
        p3 == DeleteReferencesIfSafe(p2.store, prefix, references, fail)
    IN [store |-> p3.store,
        cache |-> IF references # <<>> THEN Evict(ca, RStripSlash(prefix)) ELSE ca,
        res |-> [ok |-> TRUE, err |-> "", prefix |-> prefix,
                 deltas_deleted |-> Len(cl.deltas),
                 references_deleted |-> ReferencesDeleted(references, p3.references_kept),
                 direct_deleted |-> Len(cl.direct_uploads),
                 other_deleted |-> Len(cl.other_objects),
                 deleted_count |-> p2.deleted_count + p3.deleted_count,
                 failed_count |-> p2.failed_count + p3.failed_count,
                 warnings |-> p3.references_kept,
                 errors |-> p2.failed_count + p3.failed_count,
                 classified |-> [cl EXCEPT !.references = references],
                 calls |-> <<Call("storage.list", prefix)>> \o p2.calls \o p3.calls
                            \o (IF references # <<>>
                                THEN <<Call("cache.evict", RStripSlash(prefix))>>
                                ELSE <<>>)]]

----------------------------------------------------------------------------
(* DeltaService.rehydrate_for_download and DeltaService.purge_temp_files *)

TmpPrefix == <<".deltaglider", SLASH, "tmp", SLASH>>

\* Path(name).name
BaseName(s) == SubSeq(s, LastSlash(s) + 1, Len(s))
\* key.removesuffix(".delta")
RemoveDeltaSuffix(key) == IF IsDeltaKey(key) THEN SubSeq(key, 1, Len(key) - 1) ELSE key

\* datetime.isoformat() of a reading of the UTC clock
IsoFormat(t) == <<"T", ToString(t), "+00:00">>
\* the instants a date string of the model can denote
Instants == 0 .. (MaxTime + MaxTtl)

\* str.replace("Z", "+00:00")
ReplaceZ(str) == [i \in 1 .. Len(str) |-> IF str[i] = "Z" THEN "+00:00" ELSE str[i]]
\* datetime.fromisoformat: a date-time with or without a UTC offset, else ValueError
FromIsoFormatOk(str) ==
    /\ Len(str) \in {2, 3}
    /\ str[1] = "T"
    /\ str[2] \in {ToString(n) : n \in Instants}
    /\ Len(str) = 3 => str[3] = "+00:00"
\* the instant parsed; a date-time without offset is taken as UTC
FromIsoFormat(str) == CHOOSE n \in Instants : ToString(n) = str[2]

RehydrateFailure(st, ca, err, calls) ==
    [store |-> st, cache |-> ca,
     res |-> [ok |-> FALSE, err |-> err, temp_key |-> {}, key |-> <<>>, calls |-> calls]]

RehydratedTempMetaNoTtl(key, ttl, t) ==
    ("dg-expires-at" :> IsoFormat(t)) @@ ("dg-original-key" :> key)
        @@ ("dg-original-filename" :> BaseName(RemoveDeltaSuffix(key)))
        @@ ("dg-rehydrated" :> "true") @@ ("dg-created-at" :> IsoFormat(t))

\* the metadata of a rehydrated temp object
RehydratedTempMeta(key, ttl, t) ==
    ("dg-expires-at" :> IsoFormat(t + ttl)) @@ ("dg-original-key" :> key)
        @@ ("dg-original-filename" :> BaseName(RemoveDeltaSuffix(key)))
        @@ ("dg-rehydrated" :> "true") @@ ("dg-created-at" :> IsoFormat(t))

TempKey(key, uuid) == TmpPrefix \o <<uuid, "_">> \o BaseName(RemoveDeltaSuffix(key))

\* rehydrate_for_download once its get of key returned g
RehydrateAfterGet(st, key, g, ttl, t, uuid, calls) ==
    LET temp_key == TempKey(key, uuid)
    IN IF ~g.ok THEN RehydrateFailure(st, g.cache, g.err, calls \o g.calls)
       ELSE [store |-> StoragePut(st, temp_key, CHOOSE b \in g.sink : TRUE,
                                  RehydratedTempMeta(key, ttl, t)),
             cache |-> g.cache,
             res |-> [ok |-> TRUE, err |-> "", temp_key |-> {temp_key}, key |-> key,
                      calls |-> calls \o g.calls \o <<Call("storage.put", temp_key)>>]]

\* rehydrate_for_download(bucket, key0, ttl) at clock reading t, uuid4() returning uuid
RehydrateOp(st, ca, key0, ttl, t, uuid) ==
    LET head0 == StorageHead(st, key0)
        retry == head0 = {} /\ ~IsDeltaKey(key0)
        head1 == IF retry THEN StorageHead(st, key0 \o <<DELTA_SUFFIX>>) ELSE head0
        key == IF retry /\ head1 # {} THEN key0 \o <<DELTA_SUFFIX>> ELSE key0
        calls == <<Call("storage.head", key0)>>
                    \o (IF retry THEN <<Call("storage.head", key0 \o <<DELTA_SUFFIX>>)>>
                        ELSE <<>>)
        obj_head == CHOOSE o \in head1 : TRUE
    IN IF head1 = {} THEN RehydrateFailure(st, ca, "NotFoundError", calls)
       ELSE IF ~IsDeltaKey(key) /\ "dg-file-sha256" \notin DOMAIN obj_head.meta
            THEN [store |-> st, cache |-> ca,
                  res |-> [ok |-> TRUE, err |-> "", temp_key |-> {}, key |-> key,
                           calls |-> calls]]
       ELSE CHOOSE r \in {RehydrateAfterGet(st, key, g, ttl, t, uuid, calls) :
                            g \in {GetOp(st, ca, key, "path")}} : TRUE

PurgeExpiredAlways(meta, t) == MetaGet(meta, "dg-expires-at") # {}

\* purge_temp_files: the object carries a parseable dg-expires-at that has passed
PurgeExpired(meta, t) ==
    LET expires_at_str == MetaGet(meta, "dg-expires-at")
        str == CHOOSE x \in expires_at_str : TRUE
    IN /\ expires_at_str # {}
       /\ str # <<>>
       /\ FromIsoFormatOk(ReplaceZ(str))
       /\ t >= FromIsoFormat(ReplaceZ(str))

\* the loop of purge_temp_files over the listed keys; fail_head and fail_delete are
\* the keys whose storage.head / storage.delete raises
RECURSIVE PurgeObjects(_, _, _, _, _)
PurgeObjects(st, keys, t, fail_head, fail_delete) ==
    IF keys = <<>>
    THEN [store |-> st, deleted_count |-> 0, expired_count |-> 0, error_count |-> 0,
          total_size_freed |-> 0, calls |-> <<>>]
    ELSE LET key == Head(keys)
             listed == StartsWith(key, TmpPrefix)
             head_fails == listed /\ key \in fail_head
             expired == listed /\ ~head_fails /\ PurgeExpired(st[key].meta, t)
             delete_fails == expired /\ key \in fail_delete
             deleted == expired /\ ~delete_fails
             rest == PurgeObjects(IF deleted THEN StorageDelete(st, key) ELSE st,
                                  Tail(keys), t, fail_head, fail_delete)
         IN [store |-> rest.store,
             deleted_count |-> rest.deleted_count + (IF deleted THEN 1 ELSE 0),
             expired_count |-> rest.expired_count + (IF expired THEN 1 ELSE 0),
             error_count |-> rest.error_count
                                + (IF head_fails \/ delete_fails THEN 1 ELSE 0),
             total_size_freed |-> rest.total_size_freed
                                    + (IF deleted THEN StatSize(st[key].body) ELSE 0),
             calls |-> (IF listed THEN <<Call("storage.head", key)>> ELSE <<>>)
                        \o (IF expired THEN <<Call("storage.delete", key)>> ELSE <<>>)
                        \o rest.calls]

\* purge_temp_files(bucket) at clock reading t
PurgeOp(st, t, fail_head, fail_delete) ==
    PurgeObjects(st, StorageList(st, TmpPrefix), t, fail_head, fail_delete)

----------------------------------------------------------------------------
(* Inputs *)

Rel == <<"rel">>
Rel2 == <<"rel", "2">>
RelSub == <<"rel", SLASH, "sub">>
Root == <<>>
V1 == <<"v1", ".zip">>
V2 == <<"v2", ".zip">>
Photo == <<"photo", ".jpg">>

\* (deltaspace prefix, file name) pairs that put is called with
PutTargets == {<<Rel, V1>>, <<Rel, V2>>, <<Rel, Photo>>, <<Rel2, V1>>, <<RelSub, V1>>,
               <<Root, V1>>}
MissingKey == DirectKey(Rel, V1)
RecursivePrefixes == {Root, Rel, Rel \o <<SLASH>>, Rel2, RelSub, DeltaKey(Rel, V1)}
Sinks == {"path", "stream"}

----------------------------------------------------------------------------
(* Sequential specification: one service instance, one operation at a time *)

EmptyMap == [x \in {} |-> x]
NoOp == [op |-> "none"]
IdleReader == [pc |-> "idle"]

Evicted(calls) == {calls[i][2] : i \in {j \in 1 .. Len(calls) : calls[j][1] = "cache.evict"}}

Init ==
    /\ store = EmptyMap
    /\ cache = EmptyMap
    /\ last = NoOp
    /\ nops = 0
    /\ hist = [refDeleted |-> FALSE, storeFailed |-> FALSE, ownRefs |-> {}]
    /\ procs = EmptyMap
    /\ reader = IdleReader
    /\ now = 0

Put(prefix, name, c) ==
    /\ nops < MaxOps
    /\ LET r == PutOp(store, cache, prefix, name, Raw(c))
       IN /\ store' = r.store
          /\ cache' = r.cache
          /\ last' = [op |-> "put", prefix |-> prefix, name |-> name, file |-> Raw(c),
                      res |-> r.res]
          /\ hist' = [hist EXCEPT !.ownRefs =
                        IF r.res.operation = "create_reference" THEN @ \cup {prefix} ELSE @]
    /\ nops' = nops + 1
    /\ UNCHANGED <<procs, reader, now>>

Get(key, sink) ==
    /\ nops < MaxOps
    /\ LET r == GetOp(store, cache, key, sink)
       IN /\ cache' = r.cache
          /\ last' = [op |-> "get", key |-> key, sink |-> sink,
                      res |-> [ok |-> r.ok, err |-> r.err, sink |-> r.sink,
                               verified |-> r.verified, cache_hit |-> r.cache_hit,
                               calls |-> r.calls]]
    /\ nops' = nops + 1
    /\ UNCHANGED <<store, hist, procs, reader, now>>

Delete(key) ==
    /\ nops < MaxOps
    /\ LET r == DeleteOp(store, cache, key)
       IN /\ store' = r.store
          /\ cache' = r.cache
          /\ last' = [op |-> "delete", key |-> key, res |-> r.res]
          /\ hist' = [hist EXCEPT
                        !.refDeleted = @ \/ (r.res.ok /\ EndsWith(key, <<REFERENCE_BIN>>)),
                        !.ownRefs = @ \ Evicted(r.res.calls)]
    /\ nops' = nops + 1
    /\ UNCHANGED <<procs, reader, now>>

DeleteRecursive(prefix, fail) ==
    /\ nops < MaxOps
    /\ LET r == DeleteRecursiveOp(store, cache, prefix, fail)
       IN /\ store' = r.store
          /\ cache' = r.cache
          /\ last' = [op |-> "delete_recursive", prefix |-> prefix, fail |-> fail,
                      res |-> r.res]
          /\ hist' = [hist EXCEPT
                        !.storeFailed = @ \/ r.res.failed_count > 0,
                        !.ownRefs = @ \ Evicted(r.res.calls)]
    /\ nops' = nops + 1
    /\ UNCHANGED <<procs, reader, now>>

\* cache.evict called from outside the service (explicit cache eviction)
CacheEvict(prefix) ==
    /\ nops < MaxOps
    /\ prefix \in DOMAIN cache
    /\ cache' = Evict(cache, prefix)
    /\ last' = [op |-> "evict", prefix |-> prefix]
    /\ hist' = [hist EXCEPT !.ownRefs = @ \ {prefix}]
    /\ nops' = nops + 1
    /\ UNCHANGED <<store, procs, reader, now>>

Next ==
    \/ \E t \in PutTargets, c \in Contents : Put(t[1], t[2], c)
    \/ \E key \in DOMAIN store \cup {MissingKey}, sink \in Sinks : Get(key, sink)
    \/ \E key \in DOMAIN store \cup {MissingKey} : Delete(key)
    \/ \E prefix \in RecursivePrefixes, fail \in {{}} \cup {{k} : k \in DOMAIN store} :
            DeleteRecursive(prefix, fail)
    \/ \E prefix \in DOMAIN cache : CacheEvict(prefix)

Spec == Init /\ [][Next]_vars

----------------------------------------------------------------------------
(* Properties of the sequential specification *)

DeltaspaceOf(k) == IF HasSlash(k) THEN DirName(k) ELSE <<>>
DeltasOf(st, prefix) == {k \in DOMAIN st : IsDeltaKey(k) /\ DeltaspaceOf(k) = prefix}
StoragePuts(calls) == SelectSeq(calls, LAMBDA c : c[1] = "storage.put")
CacheCalls(calls) ==
    SelectSeq(calls, LAMBDA c : c[1] \in {"cache.has_ref", "cache.write_ref",
                                           "cache.get_validated_ref", "cache.evict"})
\* the step just taken is a put / a delete
PutStep == nops' = nops + 1 /\ last'.op = "put"
DeleteStep == nops' = nops + 1 /\ last'.op = "delete"
\* st1 differs from st at most at the keys of K
SameExcept(st, st1, K) ==
    /\ DOMAIN st \ K = DOMAIN st1 \ K
    /\ \A k \in DOMAIN st \ K : st1[k] = st[k]

\* C1: after every successful put, with nothing in between, get on the key of the
\* PutSummary succeeds and delivers exactly the bytes of the file that was put
C1_RoundTrip ==
    (last.op = "put" /\ last.res.ok) =>
        \A sink \in Sinks :
            LET g == GetOp(store, cache, last.res.key, sink)
            IN g.ok /\ g.sink = {last.file}

\* every stored '*.delta' has the reference.bin of its deltaspace, with the SHA it is bound to
BindingHolds(st) ==
    \A k \in DOMAIN st :
        IsDeltaKey(k) =>
            LET ref == ReferenceKey(DeltaspaceOf(k))
            IN /\ ref \in DOMAIN st
               /\ ResolveMetadata(st[k].meta, "ref_sha256") # {}
               /\ ResolveMetadata(st[ref].meta, "file_sha256")
                    = ResolveMetadata(st[k].meta, "ref_sha256")

\* C2: as long as no reference.bin key was deleted explicitly and no store call failed,
\* every stored delta has its deltaspace's reference.bin, whose file_sha256 is the
\* delta's ref_sha256
C2_DeltaReferenceBinding ==
    (~hist.refDeleted /\ ~hist.storeFailed) => BindingHolds(store)

C2_Witness ==
    /\ ~hist.refDeleted /\ ~hist.storeFailed
    /\ last.op = "delete" /\ last.res.ok /\ last.res.type = "delta"
    /\ \E k \in DOMAIN store : IsDeltaKey(k)

\* C5: a put of a file that is no delta candidate returns upload_direct, writes exactly
\* the one object prefix/original_name with compression="none", no '.delta' object and
\* no reference.bin, and does not touch the reference cache
C5_DirectUpload ==
    [][(PutStep /\ ~ShouldUseDelta(last'.name)) =>
            LET key == DirectKey(last'.prefix, last'.name)
            IN /\ last'.res.ok /\ last'.res.operation = "upload_direct"
               /\ last'.res.key = key
               /\ StoragePuts(last'.res.calls) = <<Call("storage.put", key)>>
               /\ SameExcept(store, store', {key})
               /\ key \in DOMAIN store'
               /\ store'[key].body = last'.file
               /\ MetaGet(store'[key].meta, "compression") = {"none"}
               /\ ~IsDeltaKey(key) /\ ~EndsWith(key, <<REFERENCE_BIN>>)
               /\ cache' = cache
               /\ CacheCalls(last'.res.calls) = <<>>
      ]_vars

C5_Witness ==
    /\ last.op = "put" /\ last.res.operation = "upload_direct"
    /\ ReferenceKey(last.prefix) \in DOMAIN store
    /\ DOMAIN cache # {}

\* C6: a put of a delta candidate into a deltaspace without reference.bin stores
\* reference.bin with file_sha256 = sha256(F) and a zero-delta at
\* prefix/original_name.delta (note "zero-diff (reference identical)", file_sha256 =
\* ref_sha256 = sha256(F)) and returns create_reference keyed at the reference
C6_FirstPut ==
    [][(PutStep /\ ShouldUseDelta(last'.name)
            /\ ReferenceKey(last'.prefix) \notin DOMAIN store) =>
            LET ref_key == ReferenceKey(last'.prefix)
                delta_key == last'.prefix
                                \o (IF last'.prefix = <<>> THEN <<>> ELSE <<SLASH>>)
                                \o last'.name \o <<DELTA_SUFFIX>>
                sha == Sha256(last'.file)
            IN /\ last'.res.ok /\ last'.res.operation = "create_reference"
               /\ last'.res.key = ref_key /\ last'.res.key # delta_key
               /\ ref_key \in DOMAIN store' /\ delta_key \in DOMAIN store'
               /\ store'[ref_key].body = last'.file
               /\ ResolveMetadata(store'[ref_key].meta, "file_sha256") = {sha}
               /\ ResolveMetadata(store'[delta_key].meta, "note") = {ZeroDiffNote}
               /\ ResolveMetadata(store'[delta_key].meta, "file_sha256") = {sha}
               /\ ResolveMetadata(store'[delta_key].meta, "ref_sha256") = {sha}
      ]_vars

C6_Witness ==
    /\ last.op = "put" /\ last.res.operation = "create_reference"
    /\ DeltaKey(last.prefix, last.name) \in DOMAIN store

\* C7: a put of a delta candidate into a deltaspace whose reference.bin exists returns
\* create_delta with the delta's ref_sha256 equal to the reference's file_sha256; when
\* the reference was created by an earlier put of this instance and its cache entry was
\* not evicted since, the put reports cache_hit and does not download reference.bin
C7_SecondVersion ==
    [][(PutStep /\ ShouldUseDelta(last'.name)
            /\ ReferenceKey(last'.prefix) \in DOMAIN store) =>
            LET ref_key == ReferenceKey(last'.prefix)
                delta_key == DeltaKey(last'.prefix, last'.name)
            IN /\ last'.res.ok /\ last'.res.operation = "create_delta"
               /\ delta_key \in DOMAIN store'
               /\ ResolveMetadata(store'[delta_key].meta, "ref_sha256")
                    = ResolveMetadata(store[ref_key].meta, "file_sha256")
               /\ last'.res.ref_sha256 = ResolveMetadata(store[ref_key].meta, "file_sha256")
               /\ last'.res.ref_sha256 # {}
               /\ (last'.prefix \in hist.ownRefs =>
                        /\ last'.res.cache_hit
                        /\ Call("storage.get", ref_key) \notin SeqToSet(last'.res.calls))
      ]_vars

C7_Witness ==
    /\ last.op = "put" /\ last.res.operation = "create_delta"
    /\ last.res.cache_hit
    /\ last.prefix \in hist.ownRefs
    /\ Sha256(last.file) \notin last.res.ref_sha256

\* C8: a put on the new-reference path performs exactly two store writes (reference.bin,
\* then original_name.delta); a put into a deltaspace that already has a reference
\* performs exactly one write (original_name.delta) and leaves reference.bin, its
\* metadata and every other object unchanged
C8_PutFrame ==
    [][(PutStep /\ ShouldUseDelta(last'.name)) =>
            LET ref_key == ReferenceKey(last'.prefix)
                delta_key == DeltaKey(last'.prefix, last'.name)
                puts == StoragePuts(last'.res.calls)
            IN IF ref_key \notin DOMAIN store
               THEN /\ puts = <<Call("storage.put", ref_key), Call("storage.put", delta_key)>>
                    /\ SameExcept(store, store', {ref_key, delta_key})
               ELSE /\ puts = <<Call("storage.put", delta_key)>>
                    /\ SameExcept(store, store', {delta_key})
                    /\ store'[ref_key] = store[ref_key]
      ]_vars

\* the same file put twice into the same deltaspace
C8_Witness ==
    /\ last.op = "put" /\ last.res.operation = "create_delta"
    /\ ResolveMetadata(store[ReferenceKey(last.prefix)].meta, "file_sha256")
            = {Sha256(last.file)}
    /\ store[ReferenceKey(last.prefix)].body = last.file
    /\ Cardinality(DeltasOf(store, last.prefix)) = 1

\* C9: delete of P/<name>.delta (P non-empty) removes the delta, and removes
\* P/reference.bin (recording it in cleaned_reference and evicting the cache entry of P)
\* if and only if no other '*.delta' of deltaspace P remains; otherwise reference.bin
\* stays and cleaned_reference is unset
C9_OrphanCleanup ==
    [][(DeleteStep /\ IsDeltaKey(last'.key) /\ HasSlash(last'.key)
            /\ last'.key \in DOMAIN store
            /\ DirName(last'.key) \o <<SLASH, REFERENCE_BIN>> \in DOMAIN store) =>
            LET key == last'.key
                P == DirName(key)
                ref_key == P \o <<SLASH, REFERENCE_BIN>>
                others == DeltasOf(store, P) \ {key}
            IN /\ last'.res.ok
               /\ key \notin DOMAIN store'
               /\ IF others = {}
                  THEN /\ ref_key \notin DOMAIN store'
                       /\ last'.res.cleaned_reference = {ref_key}
                       /\ P \notin DOMAIN cache'
                  ELSE /\ ref_key \in DOMAIN store' /\ store'[ref_key] = store[ref_key]
                       /\ last'.res.cleaned_reference = {}
      ]_vars

\* C10: delete of P/reference.bin always deletes the object and evicts the cache entry
\* of P; dependent_deltas is the number of '*.delta' objects under P whose ref_key
\* metadata is the deleted key, and a warning is given exactly when that number is > 0
C10_ExplicitReferenceDelete ==
    [][(DeleteStep /\ IsReferenceKey(last'.key) /\ last'.key \in DOMAIN store) =>
            LET key == last'.key
                P == DirName(key)
                dependents == {k \in DOMAIN store :
                                /\ IsDeltaKey(k) /\ StartsWith(k, P \o <<SLASH>>)
                                /\ ResolveMetadata(store[k].meta, "ref_key") = {key}}
            IN /\ last'.res.ok /\ last'.res.type = "reference"
               /\ key \notin DOMAIN store'
               /\ P \notin DOMAIN cache'
               /\ last'.res.dependent_deltas = Cardinality(dependents)
               /\ (last'.res.warnings > 0) <=> (Cardinality(dependents) > 0)
      ]_vars

\* the step just taken is a delete_recursive
DeleteRecursiveStep == nops' = nops + 1 /\ last'.op = "delete_recursive"

\* C11: after delete_recursive returns (runs with failing store deletes included) no
\* '*.delta' under the prefix is still stored while the reference.bin of its deltaspace
\* was deleted by that call, and a reference.bin is deleted only if no object of its
\* deltaspace outside the deletion prefix remains
C11_RecursiveNoOrphan ==
    [][DeleteRecursiveStep =>
            LET prefix == last'.res.prefix
                deleted_refs == {k \in DOMAIN store \ DOMAIN store' :
                                    EndsWith(k, <<REFERENCE_BIN>>)}
            IN /\ \A d \in DOMAIN store' :
                    (IsDeltaKey(d) /\ StartsWith(d, prefix)) =>
                        ReferenceKey(DeltaspaceOf(d)) \notin deleted_refs
               /\ \A r \in deleted_refs :
                    ~\E k \in DOMAIN store' :
                        DeltaspaceOf(k) = DeltaspaceOf(r) /\ ~StartsWith(k, prefix)
      ]_vars

\* C12: delete_recursive called with the full key of one delta, while another delta of
\* the deltaspace still uses the reference, deletes exactly that delta and keeps the
\* reference and the other deltas
C12_PartialScope ==
    [][(DeleteRecursiveStep /\ IsDeltaKey(last'.prefix) /\ last'.prefix \in DOMAIN store
            /\ last'.fail = {}
            /\ ReferenceKey(DeltaspaceOf(last'.prefix)) \in DOMAIN store
            /\ DeltasOf(store, DeltaspaceOf(last'.prefix)) \ {last'.prefix} # {}) =>
            store' = StorageDelete(store, last'.prefix)
      ]_vars

\* the delta ratio of a put of file into a deltaspace whose reference holds ref_body
\* exceeds the service's max_ratio
PutRatioExceeded(ref_body, file) ==
    RatioExceeded(StatSize(Encode(ref_body, file)), StatSize(file), DefaultMaxRatio)

\* C19: on the reference-exists path a delta ratio above max_ratio makes put emit a
\* PolicyViolationWarning, and nothing else: the put succeeds as create_delta and writes
\* the same delta object as it does for a ratio at or below max_ratio
C19_PolicyViolationNotFailure ==
    [][(PutStep /\ ShouldUseDelta(last'.name)
            /\ ReferenceKey(last'.prefix) \in DOMAIN store) =>
            LET ref_key == ReferenceKey(last'.prefix)
                delta_key == DeltaKey(last'.prefix, last'.name)
                ref_sha == CHOOSE x \in ResolveMetadata(store[ref_key].meta, "file_sha256") :
                                TRUE
            IN /\ last'.res.ok /\ last'.res.operation = "create_delta"
               /\ last'.res.warnings =
                    IF PutRatioExceeded(store[ref_key].body, last'.file)
                    THEN <<"PolicyViolationWarning">> ELSE <<>>
               /\ StoragePuts(last'.res.calls) = <<Call("storage.put", delta_key)>>
               /\ store' = StoragePut(store, delta_key,
                                      Encode(store[ref_key].body, last'.file),
                                      DeltaMetaToDict(last'.name, Sha256(last'.file),
                                                      ref_key, ref_sha, {}))
      ]_vars

C19_Witness ==
    /\ last.op = "put" /\ last.res.operation = "create_delta"
    /\ last.res.warnings = <<"PolicyViolationWarning">>
    /\ DeltaKey(last.prefix, last.name) \in DOMAIN store

\* C20: when the delta ratio of a put exceeds max_ratio the file is stored directly, as a
\* non-delta object, instead of as a delta
C20_RatioFallback ==
    [][(PutStep /\ ShouldUseDelta(last'.name)
            /\ ReferenceKey(last'.prefix) \in DOMAIN store
            /\ PutRatioExceeded(store[ReferenceKey(last'.prefix)].body, last'.file)) =>
            /\ last'.res.operation = "upload_direct"
            /\ last'.res.key = DirectKey(last'.prefix, last'.name)
            /\ DirectKey(last'.prefix, last'.name) \in DOMAIN store'
            /\ StoragePuts(last'.res.calls)
                    = <<Call("storage.put", DirectKey(last'.prefix, last'.name))>>
      ]_vars

\* the logical metadata names and the same metadata under the other namespace
LogicalNames ==
    {"tool", "source_name", "original_name", "file_sha256", "ref_key", "ref_sha256", "note",
     "compression"}
OtherKey(k) ==
    IF \E n \in LogicalNames : DgKey(n) = k THEN CHOOSE n \in LogicalNames : DgKey(n) = k
    ELSE DgKey(k)
OtherNamespace(meta) ==
    [k \in {OtherKey(x) : x \in DOMAIN meta} |->
        meta[CHOOSE x \in DOMAIN meta : OtherKey(x) = k]]

\* what a caller observes of a get
GetOutcome(g) == [ok |-> g.ok, err |-> g.err, sink |-> g.sink, verified |-> g.verified]

\* C21: every metadata reader of the service gives the same result whether a logical
\* key is stored under its bare name or under its dg- name (get's classification,
\* delete's direct classification, the dependent detection of a reference delete), and
\* the objects put writes are classified by get as DeltaGlider objects, not as foreign
C21_KeyDuality ==
    \A k \in DOMAIN store :
        LET alt == [store EXCEPT ![k].meta = OtherNamespace(@)]
        IN /\ \A sink \in Sinks :
                GetOutcome(GetOp(store, cache, k, sink)) = GetOutcome(GetOp(alt, cache, k, sink))
           /\ DeleteOp(store, cache, k).res.type = DeleteOp(alt, cache, k).res.type
           /\ \A r \in DOMAIN store :
                IsReferenceKey(r) => DependentDeltas(store, r) = DependentDeltas(alt, r)
           /\ "dg-file-sha256" \in DOMAIN store[k].meta

\* the keys of the store deletes of a call log, in order
DeletedKeys(calls) ==
    LET d == SelectSeq(calls, LAMBDA c : c[1] = "storage.delete")
    IN [i \in 1 .. Len(d) |-> d[i][2]]

\* rank of an object in the dependency order other, direct, delta, reference
DeletionRank(st, k) ==
    IF EndsWith(k, <<REFERENCE_BIN>>) THEN 4
    ELSE IF IsDeltaKey(k) THEN 3
    ELSE IF MetaGet(st[k].meta, "compression") = {"none"} THEN 2
    ELSE 1

\* C29: delete_recursive issues its store deletes in the order other objects, direct
\* uploads, deltas, references; no reference.bin delete is issued before a delete was
\* attempted for every delta under the prefix; a failed delete is counted in
\* failed_count / errors and the deletes of the remaining objects are still attempted
C29_DeletionOrder ==
    [][DeleteRecursiveStep =>
            LET keys == DeletedKeys(last'.res.calls)
                prefix == last'.res.prefix
                under == {k \in DOMAIN store : StartsWith(k, prefix)}
            IN /\ \A i \in 1 .. Len(keys) : \A j \in i .. Len(keys) :
                    DeletionRank(store, keys[i]) <= DeletionRank(store, keys[j])
               /\ \A i \in 1 .. Len(keys) :
                    EndsWith(keys[i], <<REFERENCE_BIN>>) =>
                        \A d \in under : IsDeltaKey(d) => \E j \in 1 .. (i - 1) : keys[j] = d
               /\ \A k \in under : ~EndsWith(k, <<REFERENCE_BIN>>) => k \in SeqToSet(keys)
               /\ last'.res.failed_count = Cardinality(SeqToSet(keys) \cap last'.fail)
               /\ last'.res.errors = last'.res.failed_count
      ]_vars

\* C33: in the root deltaspace (keys without "/"), delete of the last remaining
\* '*.delta' also deletes "reference.bin" and records it in cleaned_reference
C33_RootCleanup ==
    [][(DeleteStep /\ IsDeltaKey(last'.key) /\ ~HasSlash(last'.key)
            /\ last'.key \in DOMAIN store
            /\ ReferenceKey(Root) \in DOMAIN store
            /\ DeltasOf(store, Root) = {last'.key}) =>
            /\ last'.res.ok
            /\ last'.key \notin DOMAIN store'
            /\ ReferenceKey(Root) \notin DOMAIN store'
            /\ last'.res.cleaned_reference = {ReferenceKey(Root)}
      ]_vars

\* C34: when delete removes the last '*.delta' of a deltaspace P (P non-empty), the
\* reference.bin of P is removed whatever '*.delta' objects other deltaspaces hold,
\* nested ones and ones whose key starts with the string P included
C34_CleanupIsolation ==
    [][(DeleteStep /\ IsDeltaKey(last'.key) /\ HasSlash(last'.key)
            /\ last'.key \in DOMAIN store
            /\ ReferenceKey(DirName(last'.key)) \in DOMAIN store
            /\ DeltasOf(store, DirName(last'.key)) = {last'.key}) =>
            /\ ReferenceKey(DirName(last'.key)) \notin DOMAIN store'
            /\ last'.res.cleaned_reference = {ReferenceKey(DirName(last'.key))}
            /\ \A k \in DOMAIN store :
                    DeltaspaceOf(k) # DirName(last'.key) => (k \in DOMAIN store' /\ store'[k] = store[k])
      ]_vars

\* C35: after a delete_recursive of a non-empty prefix in which no store call failed, no
\* object whose key starts with the normalized prefix (prefix + "/") remains, reference.bin objects included, whatever
\* objects outside the prefix share the deltaspace name as a string prefix
C35_RecursiveComplete ==
    [][(DeleteRecursiveStep /\ last'.fail = {} /\ last'.prefix # <<>>) =>
            \A k \in DOMAIN store' : ~StartsWith(k, NormalizePrefix(last'.prefix))
      ]_vars

\* C36: in every RecursiveDeleteResult deleted_count + failed_count = deltas_deleted +
\* references_deleted + direct_deleted + other_deleted, deleted_count is the number of
\* store deletes that succeeded, and there are as many 'Kept reference' warnings as
\* classified references that were neither deleted nor failed
C36_RecursiveAccounting ==
    [][DeleteRecursiveStep =>
            LET res == last'.res
                attempted == SeqToSet(DeletedKeys(res.calls))
                references == SeqToSet(res.classified.references)
            IN /\ res.deleted_count + res.failed_count
                    = res.deltas_deleted + res.references_deleted + res.direct_deleted
                        + res.other_deleted
               /\ res.deleted_count = Cardinality(DOMAIN store \ DOMAIN store')
               /\ res.deleted_count = Cardinality(attempted \ last'.fail)
               /\ Len(DeletedKeys(res.calls)) = Cardinality(attempted)
               /\ res.failed_count = Cardinality(attempted \cap last'.fail)
               /\ res.warnings = Cardinality(references \ attempted)
      ]_vars

\* a delete_recursive kept a reference that is in use outside the prefix and met a
\* failing store delete
C36_Witness ==
    /\ last.op = "delete_recursive"
    /\ last.res.warnings = 1
    /\ last.res.failed_count = 1
    /\ last.res.references_deleted = 0

----------------------------------------------------------------------------
(* Race specification: two puts of delta candidates with different content run   *)
(* concurrently into the empty deltaspace "rel"; every object-store call of a put *)
(* is one step (no lock is held across calls)                                     *)

Procs == {"p1", "p2"}
RaceNames == {V1, V2}

InitRace ==
    /\ store = EmptyMap
    /\ cache = EmptyMap
    /\ last = NoOp
    /\ nops = 0
    /\ hist = [refDeleted |-> FALSE, storeFailed |-> FALSE, ownRefs |-> {}]
    /\ reader = IdleReader
    /\ \E names \in [Procs -> RaceNames], files \in [Procs -> Contents] :
            /\ files["p1"] # files["p2"]
            /\ procs = [p \in Procs |->
                            [pc |-> "head", prefix |-> Rel, name |-> names[p],
                             file |-> Raw(files[p]), saw_reference |-> FALSE,
                             ref_sha256 |-> {}, delta |-> {}, encode_ref |-> {},
                             operation |-> "", err |-> ""]]
    /\ now = 0

\* put: head of reference.bin (service.py line 137)
PutHead(p) ==
    /\ procs[p].pc = "head"
    /\ LET ref_head == StorageHead(store, ReferenceKey(procs[p].prefix))
       IN procs' = [procs EXCEPT ![p].pc = IF ref_head = {} THEN "upload_ref" ELSE "fetch_ref",
                                 ![p].saw_reference = ref_head # {},
                                 ![p].ref_sha256 =
                                    IF ref_head = {} THEN {}
                                    ELSE ResolveMetadata((CHOOSE o \in ref_head : TRUE).meta,
                                                         "file_sha256")]
    /\ UNCHANGED <<store, cache, last, nops, hist, reader, now>>

\* _create_reference: upload of reference.bin (lines 340-346)
PutUploadReference(p) ==
    /\ procs[p].pc = "upload_ref"
    /\ store' = StoragePut(store, ReferenceKey(procs[p].prefix), procs[p].file,
                           ReferenceMetaToDict(procs[p].name, Sha256(procs[p].file)))
    /\ procs' = [procs EXCEPT ![p].pc = "rehead"]
    /\ UNCHANGED <<cache, last, nops, hist, reader, now>>

\* _create_reference: re-head, choice of the bound SHA, cache write (lines 348-362)
PutRehead(p) ==
    /\ procs[p].pc = "rehead"
    /\ procs' = [procs EXCEPT
                    ![p].pc = "upload_zero",
                    ![p].ref_sha256 =
                        {BoundRefSha(StorageHead(store, ReferenceKey(procs[p].prefix)),
                                     Sha256(procs[p].file))}]
    /\ cache' = CacheLocalFile(cache, procs[p].prefix, procs[p].file)
    /\ UNCHANGED <<store, last, nops, hist, reader, now>>

\* _create_reference: encode and upload of the zero-delta (lines 364-405)
PutUploadZeroDelta(p) ==
    /\ procs[p].pc = "upload_zero"
    /\ store' = StoragePut(store, DeltaKey(procs[p].prefix, procs[p].name),
                           Encode(procs[p].file, procs[p].file),
                           DeltaMetaToDict(procs[p].name, Sha256(procs[p].file),
                                           ReferenceKey(procs[p].prefix),
                                           CHOOSE x \in procs[p].ref_sha256 : TRUE,
                                           {ZeroDiffNote}))
    /\ procs' = [procs EXCEPT ![p].pc = "done", ![p].operation = "create_reference",
                              ![p].encode_ref = {procs[p].file}]
    /\ UNCHANGED <<cache, last, nops, hist, reader, now>>

\* _create_delta: ensure the reference is cached, take the validated reference and
\* encode (lines 419-440); the download of reference.bin is its store call
PutFetchReference(p) ==
    /\ procs[p].pc = "fetch_ref"
    /\ LET ref_sha == procs[p].ref_sha256
           ref_sha256 == CHOOSE x \in ref_sha : TRUE
           cache_hit == HasRef(cache, procs[p].prefix, ref_sha256)
           cr == IF cache_hit THEN [ok |-> TRUE, err |-> "", cache |-> cache, calls |-> <<>>]
                 ELSE CacheReference(store, cache, procs[p].prefix, ref_sha256)
       IN IF ref_sha = {}
          THEN /\ procs' = [procs EXCEPT ![p].pc = "failed", ![p].err = "ValueError"]
               /\ cache' = cache
          ELSE IF ~cr.ok
          THEN /\ procs' = [procs EXCEPT ![p].pc = "failed", ![p].err = cr.err]
               /\ cache' = cr.cache
          ELSE /\ procs' = [procs EXCEPT
                              ![p].pc = "upload_delta",
                              ![p].encode_ref = {EncodeSource(cr.cache, procs[p].prefix,
                                                              ref_sha256)},
                              ![p].delta = {Encode(EncodeSource(cr.cache, procs[p].prefix,
                                                                ref_sha256),
                                                   procs[p].file)}]
               /\ cache' = cr.cache
    /\ UNCHANGED <<store, last, nops, hist, reader, now>>

\* _create_delta: upload of the delta (lines 476-503)
PutUploadDelta(p) ==
    /\ procs[p].pc = "upload_delta"
    /\ store' = StoragePut(store, DeltaKey(procs[p].prefix, procs[p].name),
                           CHOOSE d \in procs[p].delta : TRUE,
                           DeltaMetaToDict(procs[p].name, Sha256(procs[p].file),
                                           ReferenceKey(procs[p].prefix),
                                           CHOOSE x \in procs[p].ref_sha256 : TRUE, {}))
    /\ procs' = [procs EXCEPT ![p].pc = "done", ![p].operation = "create_delta"]
    /\ UNCHANGED <<cache, last, nops, hist, reader, now>>

\* a storage.put of the put raises (lines 342, 391, 482): the exception leaves put
PutStorageFails(p) ==
    /\ procs[p].pc \in {"upload_ref", "upload_zero", "upload_delta"}
    /\ procs' = [procs EXCEPT ![p].pc = "failed", ![p].err = "StorageError"]
    /\ UNCHANGED <<store, cache, last, nops, hist, reader, now>>

\* _create_reference: diff.encode of the zero-delta raises (line 374, no handler)
PutZeroEncodeFails(p) ==
    /\ procs[p].pc = "upload_zero"
    /\ procs' = [procs EXCEPT ![p].pc = "failed", ![p].err = "Exception"]
    /\ UNCHANGED <<store, cache, last, nops, hist, reader, now>>

\* _create_delta: diff.encode raises once the validated reference was obtained; the
\* exception is wrapped into DiffEncodeError (lines 434-438)
PutEncodeFails(p) ==
    /\ procs[p].pc = "fetch_ref"
    /\ procs[p].ref_sha256 # {}
    /\ LET ref_sha256 == CHOOSE x \in procs[p].ref_sha256 : TRUE
           cr == IF HasRef(cache, procs[p].prefix, ref_sha256)
                 THEN [ok |-> TRUE, err |-> "", cache |-> cache, calls |-> <<>>]
                 ELSE CacheReference(store, cache, procs[p].prefix, ref_sha256)
       IN /\ cr.ok
          /\ cache' = cr.cache
    /\ procs' = [procs EXCEPT ![p].pc = "failed", ![p].err = "DiffEncodeError"]
    /\ UNCHANGED <<store, last, nops, hist, reader, now>>

NextRace ==
    \E p \in Procs :
        \/ PutHead(p)
        \/ PutUploadReference(p)
        \/ PutRehead(p)
        \/ PutUploadZeroDelta(p)
        \/ PutFetchReference(p)
        \/ PutUploadDelta(p)
        \/ PutStorageFails(p)
        \/ PutZeroEncodeFails(p)
        \/ PutEncodeFails(p)

SpecRace == InitRace /\ [][NextRace]_vars

\* C3: when both puts saw no reference.bin and both have completed, every '*.delta' of
\* the deltaspace carries ref_sha256 equal to the file_sha256 of the surviving reference.bin
C3_ReferenceRace ==
    (\A p \in Procs : procs[p].pc = "done" /\ ~procs[p].saw_reference) =>
        \A k \in DeltasOf(store, Rel) :
            /\ ReferenceKey(Rel) \in DOMAIN store
            /\ ResolveMetadata(store[k].meta, "ref_sha256")
                    = ResolveMetadata(store[ReferenceKey(Rel)].meta, "file_sha256")

\* C32: every delta a put writes, the zero-delta of _create_reference with an adopted
\* reference SHA included, records as ref_sha256 the SHA-256 of the bytes the encoder
\* was given as reference, so that decoding it against a reference with that SHA
\* reproduces the file
C32_EncodeSourceBinding ==
    [][\A p \in Procs :
            (procs[p].pc # "done" /\ procs'[p].pc = "done") =>
                LET k == DeltaKey(procs[p].prefix, procs[p].name)
                    delta_meta == DeltaMetaFromDict(store'[k].meta)
                IN /\ k \in DOMAIN store'
                   /\ \A b \in procs'[p].encode_ref :
                        /\ delta_meta.ref_sha256 = Sha256(b)
                        /\ Decode(b, store'[k].body) = procs[p].file
      ]_vars

\* the other put has not started or has ended
OthersQuiet(p) == \A q \in Procs \ {p} : procs[q].pc \in {"head", "done", "failed"}

\* C37: when a put raises at any step, no deltaspace is left with reference.bin and no
\* '*.delta'; an encoder failure on the reference-exists path raises DiffEncodeError
\* and the put has written nothing to the store
C37_PutFailureAtomicity ==
    [][\A p \in Procs :
            (procs[p].pc # "failed" /\ procs'[p].pc = "failed" /\ OthersQuiet(p)) =>
                /\ ReferenceKey(procs[p].prefix) \in DOMAIN store'
                        => DeltasOf(store', procs[p].prefix) # {}
                /\ (procs[p].pc = "fetch_ref" /\ procs'[p].err \notin {"ValueError",
                        "StoreError", "IntegrityMismatchError", "CacheMissError"}) =>
                        /\ procs'[p].err = "DiffEncodeError"
                        /\ store' = store
      ]_vars

----------------------------------------------------------------------------
(* Cache specification: a get (delta path) or a put (reference-exists path) uses  *)
(* the reference cache step by step while another actor overwrites or evicts the  *)
(* same (bucket, prefix) entry between the steps                                  *)

\* the store after put(v1.zip, r) and put(v2.zip, f) into the deltaspace "rel"
StoreWithDelta(r, f) ==
    LET first == PutOp(EmptyMap, EmptyMap, Rel, V1, Raw(r))
    IN PutOp(first.store, first.cache, Rel, V2, Raw(f)).store

InitCache ==
    /\ last = NoOp
    /\ nops = 0
    /\ hist = [refDeleted |-> FALSE, storeFailed |-> FALSE, ownRefs |-> {}]
    /\ procs = EmptyMap
    /\ \E r \in Contents, f \in Contents, g \in Contents, op \in {"get", "put"} :
            /\ store = StoreWithDelta(r, f)
            /\ cache \in {EmptyMap, WriteRef(EmptyMap, Rel, Raw(r))}
            /\ reader = [pc |-> "has_ref", op |-> op, file |-> Raw(IF op = "get" THEN f ELSE g),
                         sha |-> IF op = "get"
                                 THEN DeltaMetaFromDict(store[DeltaKey(Rel, V2)].meta).ref_sha256
                                 ELSE CHOOSE x \in ResolveMetadata(
                                            store[ReferenceKey(Rel)].meta, "file_sha256") : TRUE,
                         cache_hit |-> FALSE, validated |-> {}, read |-> {}, out |-> {},
                         err |-> ""]
    /\ now = 0

\* cache.has_ref (get: line 232, _create_delta: line 424)
ReaderHasRef ==
    /\ reader.pc = "has_ref"
    /\ LET hit == HasRef(cache, Rel, reader.sha)
       IN reader' = [reader EXCEPT !.cache_hit = hit,
                                   !.pc = IF hit THEN "validate" ELSE "cache_reference"]
    /\ UNCHANGED <<store, cache, last, nops, hist, procs, now>>

\* _cache_reference on a miss (get: line 236, _create_delta: line 426)
ReaderCacheReference ==
    /\ reader.pc = "cache_reference"
    /\ LET cr == CacheReference(store, cache, Rel, reader.sha)
       IN /\ cache' = cr.cache
          /\ reader' = [reader EXCEPT !.pc = IF cr.ok THEN "validate" ELSE "failed",
                                      !.err = cr.err]
    /\ UNCHANGED <<store, last, nops, hist, procs, now>>

\* cache.get_validated_ref (get: line 243, _create_delta: line 429)
ReaderGetValidatedRef ==
    /\ reader.pc = "validate"
    /\ reader' = IF ValidatedRefOk(cache, Rel, reader.sha)
                 THEN [reader EXCEPT !.pc = "diff",
                                     !.validated = {ValidatedRef(cache, Rel, reader.sha)}]
                 ELSE [reader EXCEPT !.pc = "failed", !.err = "CacheMissError"]
    /\ UNCHANGED <<store, cache, last, nops, hist, procs, now>>

\* diff.decode and the integrity check of get (lines 254-265), or diff.encode and the
\* upload of the delta of _create_delta (lines 436-486)
ReaderDiff ==
    /\ reader.pc = "diff"
    /\ LET read == RefPathBytes(CHOOSE b \in reader.validated : TRUE, cache, Rel)
           ref == CHOOSE b \in read : TRUE
           key == DeltaKey(Rel, V2)
       IN IF read = {}
          THEN /\ reader' = [reader EXCEPT !.pc = "failed",
                                !.err = IF reader.op = "get" THEN "DiffDecodeError"
                                        ELSE "DiffEncodeError"]
               /\ store' = store
          ELSE IF reader.op = "get"
          THEN /\ store' = store
               /\ LET out == Decode(ref, store[key].body)
                      delta_meta == DeltaMetaFromDict(store[key].meta)
                  IN reader' = IF Sha256(out) # delta_meta.file_sha256
                               THEN [reader EXCEPT !.pc = "failed", !.read = read,
                                                   !.err = "IntegrityMismatchError"]
                               ELSE [reader EXCEPT !.pc = "done", !.read = read,
                                                   !.out = {out}]
          ELSE /\ store' = StoragePut(store, key, Encode(ref, reader.file),
                                      DeltaMetaToDict(V2, Sha256(reader.file),
                                                      ReferenceKey(Rel), reader.sha, {}))
               /\ reader' = [reader EXCEPT !.pc = "done", !.read = read]
    /\ UNCHANGED <<cache, last, nops, hist, procs, now>>

\* another actor overwrites the cache entry of the deltaspace (write_ref)
ActorWriteRef(c) ==
    /\ reader.pc \notin {"done", "failed"}
    /\ cache' = WriteRef(cache, Rel, Raw(c))
    /\ cache' # cache
    /\ UNCHANGED <<store, last, nops, hist, procs, reader, now>>

\* another actor evicts the cache entry of the deltaspace
ActorEvict ==
    /\ reader.pc \notin {"done", "failed"}
    /\ Rel \in DOMAIN cache
    /\ cache' = Evict(cache, Rel)
    /\ UNCHANGED <<store, last, nops, hist, procs, reader, now>>

NextCache ==
    \/ ReaderHasRef
    \/ ReaderCacheReference
    \/ ReaderGetValidatedRef
    \/ ReaderDiff
    \/ \E c \in Contents : ActorWriteRef(c)
    \/ ActorEvict

SpecCache == InitCache /\ [][NextCache]_vars

----------------------------------------------------------------------------
(* Bucket specification: a fresh service instance (empty reference cache) works  *)
(* on a bucket that an earlier instance filled and that other clients share:     *)
(* they add objects without DeltaGlider metadata, and stored bytes can change     *)
(* under unchanged metadata                                                      *)

RawBin == <<"raw", ".bin">>
BucketPutTargets == {<<Rel, V2>>, <<Rel, Photo>>}
ForeignKeys == {DirectKey(Rel, RawBin)}

\* the bucket after put(v1.zip), put(v2.zip) and put(photo.jpg) into "rel"
BucketAfterPuts(f) ==
    LET a == PutOp(EmptyMap, EmptyMap, Rel, V1, Raw(0))
        b == PutOp(a.store, a.cache, Rel, V2, Raw(f))
        c == PutOp(b.store, b.cache, Rel, Photo, Raw(f))
    IN c.store

InitBucket ==
    /\ \E f \in Contents : store = BucketAfterPuts(f)
    /\ cache = EmptyMap
    /\ last = NoOp
    /\ nops = 0
    /\ hist = [refDeleted |-> FALSE, storeFailed |-> FALSE, ownRefs |-> {}]
    /\ procs = EmptyMap
    /\ reader = IdleReader
    /\ now = 0

VerifyDeletesInvalid(key) ==
    /\ nops < MaxOps
    /\ LET r == VerifyOp(store, cache, key)
       IN /\ cache' = r.cache
          /\ store' = IF r.ok /\ r.valid THEN store ELSE StorageDelete(store, key)
          /\ last' = [op |-> "verify", key |-> key,
                      res |-> [ok |-> r.ok, err |-> r.err, valid |-> r.valid,
                               expected_sha256 |-> r.expected_sha256,
                               actual_sha256 |-> r.actual_sha256, calls |-> r.calls]]
    /\ nops' = nops + 1
    /\ UNCHANGED <<hist, procs, reader, now>>

Verify(key) ==
    /\ nops < MaxOps
    /\ LET r == VerifyOp(store, cache, key)
       IN /\ cache' = r.cache
          /\ last' = [op |-> "verify", key |-> key,
                      res |-> [ok |-> r.ok, err |-> r.err, valid |-> r.valid,
                               expected_sha256 |-> r.expected_sha256,
                               actual_sha256 |-> r.actual_sha256, calls |-> r.calls]]
    /\ nops' = nops + 1
    /\ UNCHANGED <<store, hist, procs, reader, now>>

\* another client of the bucket puts an object without DeltaGlider metadata
ExternalPut(key, c) ==
    /\ nops < MaxOps
    /\ store' = StoragePut(store, key, Raw(c), EmptyMap)
    /\ cache' = cache
    /\ last' = [op |-> "external_put", key |-> key]
    /\ nops' = nops + 1
    /\ UNCHANGED <<hist, procs, reader, now>>

\* the stored bytes of an object change while its metadata stays
ExternalCorrupt(key) ==
    /\ nops < MaxOps
    /\ key \in DOMAIN store
    /\ store' = [store EXCEPT ![key].body.v = (@ + 1) % NumContents]
    /\ cache' = cache
    /\ last' = [op |-> "external_corrupt", key |-> key]
    /\ nops' = nops + 1
    /\ UNCHANGED <<hist, procs, reader, now>>

\* at most MaxOps - 1 steps
NextBucket ==
    \/ \E t \in BucketPutTargets, c \in Contents \cup {EmptyFile.v} :
            nops + 1 < MaxOps /\ Put(t[1], t[2], c)
    \/ \E key \in DOMAIN store, sink \in Sinks : nops + 1 < MaxOps /\ Get(key, sink)
    \/ \E key \in DOMAIN store : nops + 1 < MaxOps /\ Verify(key)
    \/ \E key \in ForeignKeys, c \in Contents : nops + 1 < MaxOps /\ ExternalPut(key, c)
    \/ \E key \in DOMAIN store : nops + 1 < MaxOps /\ ExternalCorrupt(key)
    \/ \E prefix \in DOMAIN cache : nops + 1 < MaxOps /\ CacheEvict(prefix)

SpecBucket == InitBucket /\ [][NextBucket]_vars

\* the step just taken is a get / a verify
GetStep == nops' = nops + 1 /\ last'.op = "get"
VerifyStep == nops' = nops + 1 /\ last'.op = "verify"
CallNames(calls) == {calls[i][1] : i \in 1 .. Len(calls)}

\* C13: get of an object whose metadata lacks dg-file-sha256, whatever else it carries,
\* streams the stored bytes verbatim, performs no integrity check and never raises
\* IntegrityMismatchError
C13_ForeignVerbatim ==
    [][(GetStep /\ last'.key \in DOMAIN store
            /\ "dg-file-sha256" \notin DOMAIN store[last'.key].meta) =>
            /\ last'.res.sink = {store[last'.key].body}
            /\ ~last'.res.verified
            /\ "hasher.sha256" \notin CallNames(last'.res.calls)
            /\ last'.res.err # "IntegrityMismatchError"
            /\ last'.res.ok
      ]_vars

\* written by DeltaGlider as a direct upload: file_sha256 recorded, compression "none"
IsDirectObject(meta) ==
    ResolveMetadata(meta, "file_sha256") # {} /\ MetaGet(meta, "compression") = {"none"}

\* C14: get of a direct object (DeltaGlider metadata, compression="none") with a file-path
\* sink hashes the written file and raises IntegrityMismatchError exactly when the hash
\* differs from the stored file_sha256; with a byte-stream sink it verifies nothing and
\* returns normally even when the stored bytes do not match file_sha256
C14_DirectVerify ==
    [][(GetStep /\ last'.key \in DOMAIN store /\ IsDirectObject(store[last'.key].meta)) =>
            LET obj == store[last'.key]
                matches == ResolveMetadata(obj.meta, "file_sha256") = {Sha256(obj.body)}
            IN IF last'.sink = "path"
               THEN /\ last'.res.verified
                    /\ "hasher.sha256" \in CallNames(last'.res.calls)
                    /\ (last'.res.err = "IntegrityMismatchError") <=> ~matches
                    /\ last'.res.ok <=> matches
               ELSE /\ ~last'.res.verified
                    /\ "hasher.sha256" \notin CallNames(last'.res.calls)
                    /\ last'.res.ok
                    /\ last'.res.sink = {obj.body}
      ]_vars

\* a direct object whose bytes no longer match its file_sha256 was read into a file
C14_Witness ==
    /\ last.op = "get" /\ last.sink = "path"
    /\ last.key \in DOMAIN store /\ IsDirectObject(store[last.key].meta)
    /\ last.res.err = "IntegrityMismatchError"

\* the object is handled by the delta branch of get
IsDeltaObject(meta) ==
    /\ "dg-file-sha256" \in DOMAIN meta
    /\ MetaGet(meta, "compression") # {"none"}
    /\ DeltaMetaParses(meta)

\* position of a call in the order head, ensure-cache, download-delta, decode, verify, emit
GetStage(call, key) ==
    CASE call[1] = "storage.head" -> 1
      [] call[1] \in {"cache.has_ref", "cache.write_ref", "cache.get_validated_ref"} -> 2
      [] call[1] = "storage.get" /\ call[2] # key -> 2
      [] call[1] = "storage.get" /\ call[2] = key -> 3
      [] call[1] = "diff.decode" -> 4
      [] call[1] = "hasher.sha256" -> 5
      [] call[1] = "sink.write" -> 6

\* C15: in a delta get the steps occur in the order head, ensure reference cached,
\* download delta, decode, hash check, emit; nothing is written to the sink before the
\* hash of the decoded output was found equal to the delta's file_sha256, and on a
\* mismatch get raises IntegrityMismatchError with the sink untouched
C15_DeltaGetOrder ==
    [][(GetStep /\ last'.key \in DOMAIN store /\ IsDeltaObject(store[last'.key].meta)) =>
            LET calls == last'.res.calls
                expected == DeltaMetaFromDict(store[last'.key].meta).file_sha256
            IN /\ \A i \in 1 .. Len(calls) : \A j \in i .. Len(calls) :
                    GetStage(calls[i], last'.key) <= GetStage(calls[j], last'.key)
               /\ (last'.res.sink # {} \/ "sink.write" \in CallNames(calls)) =>
                    /\ last'.res.ok
                    /\ "hasher.sha256" \in CallNames(calls)
                    /\ \A b \in last'.res.sink : Sha256(b) = expected
               /\ ~last'.res.ok => last'.res.sink = {}
               /\ ("hasher.sha256" \in CallNames(calls) /\ ~last'.res.ok) =>
                    last'.res.err = "IntegrityMismatchError"
      ]_vars

\* a delta was decoded, and the hash of the output differed from its file_sha256
C15_Witness ==
    /\ last.op = "get" /\ last.key \in DOMAIN store /\ IsDeltaObject(store[last.key].meta)
    /\ last.res.err = "IntegrityMismatchError"
    /\ "diff.decode" \in CallNames(last.res.calls)

\* C16: put never raises IntegrityMismatchError, on any path, the download of a
\* reference whose bytes do not hash to its recorded file_sha256 included
C16_PutNoIntegrityError ==
    (last.op = "put") => last.res.err # "IntegrityMismatchError"

\* C17: after a successful put, verify on the key of the PutSummary returns valid=true
\* with expected_sha256 = actual_sha256 = sha256(F), on every put path
C17_VerifyAfterPut ==
    (last.op = "put" /\ last.res.ok) =>
        \A g \in {GetOp(store, cache, last.res.key, "path")} :
            LET v == VerifyAfterGet(store, last.res.key, g)
            IN /\ v.ok /\ v.valid
               /\ v.expected_sha256 = {Sha256(last.file)}
               /\ v.actual_sha256 = {Sha256(last.file)}

\* C18: get and verify issue no put and no delete to the store, whatever the object
\* class and the outcome: the stored objects and their metadata are unchanged
C18_ReadOnly ==
    [][(GetStep \/ VerifyStep) =>
            /\ store' = store
            /\ CallNames(last'.res.calls) \cap {"storage.put", "storage.delete"} = {}
      ]_vars

\* a get or verify that failed after it had written the reference into the cache
C18_Witness ==
    /\ last.op \in {"get", "verify"}
    /\ ~last.res.ok
    /\ "cache.write_ref" \in CallNames(last.res.calls)
    /\ DOMAIN cache # {}

\* the deltaspace prefixes for which the call log shows a _cache_reference: a has_ref
\* that was answered false is followed by the download of reference.bin
CacheReferenceCalled(calls) ==
    {calls[i][2] : i \in {j \in 1 .. (Len(calls) - 1) :
                            /\ calls[j][1] = "cache.has_ref"
                            /\ calls[j + 1] = Call("storage.get", ReferenceKey(calls[j][2]))}}

\* the ref_sha256 the step just taken asked the cache for
RequestedRefSha ==
    IF last'.op = "put"
    THEN ResolveMetadata(store[ReferenceKey(last'.prefix)].meta, "file_sha256")
    ELSE {DeltaMetaFromDict(store[last'.key].meta).ref_sha256}

C38_NoCorruptOutput ==
    [][(GetStep /\ last'.key \in DOMAIN store /\ IsDirectObject(store[last'.key].meta)
            /\ last'.sink = "path" /\ last'.res.err = "IntegrityMismatchError") =>
            last'.res.sink = {}
      ]_vars

\* C39: with no writer between the inner get and the second head, verify returns
\* valid=true or raises; it never returns a result with valid=false
C39_VerifyNeverInvalid ==
    [][VerifyStep => (last'.res.ok => last'.res.valid)]_vars

\* C40: put of a zero-byte delta candidate into a deltaspace that has a reference
\* completes, uploads the delta and returns operation=create_delta
C40_ZeroBytePut ==
    [][(PutStep /\ last'.file = EmptyFile /\ ShouldUseDelta(last'.name)
            /\ ReferenceKey(last'.prefix) \in DOMAIN store
            /\ ResolveMetadata(store[ReferenceKey(last'.prefix)].meta, "file_sha256")
                    = {Sha256(store[ReferenceKey(last'.prefix)].body)}) =>
            /\ last'.res.ok
            /\ last'.res.operation = "create_delta"
            /\ DeltaKey(last'.prefix, last'.name) \in DOMAIN store'
            /\ DeltaMetaFromDict(store'[DeltaKey(last'.prefix, last'.name)].meta).file_sha256
                    = Sha256(EmptyFile)
      ]_vars

\* verify of an object whose stored bytes changed under its metadata: the inner get
\* hashed the output and raised
C39_Witness ==
    /\ last.op = "verify" /\ last.key \in DOMAIN store
    /\ ~last.res.ok /\ last.res.err = "IntegrityMismatchError"
    /\ "hasher.sha256" \in CallNames(last.res.calls)

----------------------------------------------------------------------------
(* Temp-file specification: rehydrate_for_download and purge_temp_files over a
   bucket that already holds a deltaspace and temp objects of other writers,
   with a clock that advances *)

Uuids == {"u1", "u2"}
TtlValues == 0 .. MaxTtl

\* temp objects other writers left: no dg-expires-at, an empty one, one that is no
\* date, one in the "Z" form and one without offset
ForeignTempObjects ==
    (TmpPrefix \o RawBin :> [body |-> Raw(0), meta |-> EmptyMap])
        @@ (TmpPrefix \o Photo :> [body |-> Raw(0),
                                   meta |-> ("dg-expires-at" :> <<"garbage">>)])
        @@ (TmpPrefix \o V1 :> [body |-> Raw(1), meta |-> ("dg-expires-at" :> <<"T", "1", "Z">>)])
        @@ (TmpPrefix \o V2 :> [body |-> Raw(0), meta |-> ("dg-expires-at" :> <<"T", "2">>)])
        @@ (TmpPrefix \o <<"sub">> :> [body |-> Raw(0), meta |-> ("dg-expires-at" :> <<>>)])
\* an object outside .deltaglider/tmp/ that carries an expiry in the past
OutsideTempObject ==
    (DirectKey(Rel, RawBin) :> [body |-> Raw(0), meta |-> ("dg-expires-at" :> IsoFormat(0))])

RehydrateKeys == {DeltaKey(Rel, V1), DirectKey(Rel, V2), DirectKey(Rel, Photo),
                  ReferenceKey(Rel), DirectKey(Rel2, V1), DirectKey(Rel, RawBin)}

TempKeys(st) == {k \in DOMAIN st : StartsWith(k, TmpPrefix)}
\* uuid4(): a value no temp key carries yet
FreshUuids(st) == {u \in Uuids : \A k \in TempKeys(st) : k[Len(TmpPrefix) + 1] # u}

InitTemp ==
    /\ store = BucketAfterPuts(1) @@ ForeignTempObjects @@ OutsideTempObject
    /\ cache = EmptyMap
    /\ last = NoOp
    /\ nops = 0
    /\ hist = [temps |-> EmptyMap]
    /\ procs = EmptyMap
    /\ reader = IdleReader
    /\ now = 0

Rehydrate(key, ttl) ==
    /\ FreshUuids(store) # {}
    /\ LET uuid == CHOOSE u \in FreshUuids(store) : \A v \in FreshUuids(store) :
                        TokRank(u) <= TokRank(v)
           r == RehydrateOp(store, cache, key, ttl, now, uuid)
       IN /\ store' = r.store
          /\ cache' = r.cache
          /\ last' = [op |-> "rehydrate", key |-> key, ttl |-> ttl, t |-> now,
                      res |-> r.res]
          \* history: the temp objects rehydrate created, with clock reading + ttl
          /\ hist' = [temps |-> [k \in r.res.temp_key |-> now + ttl] @@ hist.temps]
    /\ nops' = nops + 1
    /\ UNCHANGED <<procs, reader, now>>

Purge(fail_head, fail_delete) ==
    /\ LET r == PurgeOp(store, now, fail_head, fail_delete)
       IN /\ store' = r.store
          /\ last' = [op |-> "purge", t |-> now, fail_head |-> fail_head,
                      fail_delete |-> fail_delete,
                      res |-> [deleted_count |-> r.deleted_count,
                               expired_count |-> r.expired_count,
                               error_count |-> r.error_count,
                               total_size_freed |-> r.total_size_freed,
                               calls |-> r.calls]]
    /\ nops' = nops + 1
    /\ UNCHANGED <<cache, hist, procs, reader, now>>

\* the clock advances
Tick ==
    /\ now < MaxTime
    /\ now' = now + 1
    /\ UNCHANGED <<store, cache, last, nops, hist, procs, reader>>

\* at most MaxOps - 1 operations
NextTemp ==
    \/ \E key \in RehydrateKeys, ttl \in TtlValues : nops + 1 < MaxOps /\ Rehydrate(key, ttl)
    \/ \E k \in TempKeys(store) : nops + 1 < MaxOps /\ Purge({k}, {})
    \/ \E k \in TempKeys(store) : nops + 1 < MaxOps /\ Purge({}, {k})
    \/ nops + 1 < MaxOps /\ Purge({}, {})
    \/ Tick

SpecTemp == InitTemp /\ [][NextTemp]_vars

RehydrateStep == nops' = nops + 1 /\ last'.op = "rehydrate"
PurgeStep == nops' = nops + 1 /\ last'.op = "purge"

\* the object rehydrate_for_download finds for a requested key: the key itself, or
\* key + ".delta" when the key is absent and has no ".delta" suffix
FoundKey(st, key) ==
    IF key \in DOMAIN st THEN {key}
    ELSE IF ~IsDeltaKey(key) /\ key \o <<DELTA_SUFFIX>> \in DOMAIN st
         THEN {key \o <<DELTA_SUFFIX>>}
    ELSE {}

RehydratedMetaKeys ==
    {"dg-expires-at", "dg-original-key", "dg-original-filename", "dg-rehydrated",
     "dg-created-at"}

\* C22: rehydrate_for_download retries an absent key without ".delta" suffix as
\* key + ".delta"; for a found object without ".delta" suffix and without
\* dg-file-sha256 it returns None and writes nothing; for every other found object it
\* succeeds and adds exactly one object under .deltaglider/tmp/ that carries the five
\* dg- entries (dg-rehydrated = "true"), every other object staying as it was
C22_Rehydrate ==
    [][RehydrateStep =>
        LET key0 == last'.key
            res == last'.res
        IN /\ (key0 \notin DOMAIN store /\ ~IsDeltaKey(key0)) =>
                    Call("storage.head", key0 \o <<DELTA_SUFFIX>>) \in SeqToSet(res.calls)
           /\ FoundKey(store, key0) = {} => (~res.ok /\ store' = store)
           /\ \A key \in FoundKey(store, key0) :
                IF ~IsDeltaKey(key) /\ "dg-file-sha256" \notin DOMAIN store[key].meta
                THEN res.ok /\ res.temp_key = {} /\ store' = store
                ELSE /\ res.ok
                     /\ \E temp_key \in DOMAIN store' \ DOMAIN store :
                          /\ res.temp_key = {temp_key}
                          /\ DOMAIN store' = DOMAIN store \cup {temp_key}
                          /\ StartsWith(temp_key, TmpPrefix)
                          /\ DOMAIN store'[temp_key].meta = RehydratedMetaKeys
                          /\ store'[temp_key].meta["dg-rehydrated"] = "true"
                          /\ store'[temp_key].meta["dg-original-key"] = key
                     /\ \A k \in DOMAIN store : store'[k] = store[k]
      ]_vars

\* a rehydrate of "rel/v2.zip" found "rel/v2.zip.delta" and uploaded the temp object
C22_Witness ==
    /\ last.op = "rehydrate" /\ last.key = DirectKey(Rel, V2)
    /\ last.res.ok /\ last.res.key = DeltaKey(Rel, V2)
    /\ \E k \in last.res.temp_key : k \in DOMAIN store

\* a rehydrate of reference.bin, which carries dg-file-sha256, failed
C22_Counterexample ==
    /\ last.op = "rehydrate" /\ last.key = ReferenceKey(Rel)
    /\ ~last.res.ok

\* the instants at which an object's dg-expires-at, if it has one that is a date, falls
ExpiryOf(obj) ==
    {n \in Instants :
        /\ "dg-expires-at" \in DOMAIN obj.meta
        /\ obj.meta["dg-expires-at"] \in
              {<<"T", ToString(n)>>, <<"T", ToString(n), "+00:00">>, <<"T", ToString(n), "Z">>}}

\* the objects a purge at clock reading t is to delete
Purgeable(st, t) ==
    {k \in DOMAIN st : StartsWith(k, TmpPrefix) /\ \E n \in ExpiryOf(st[k]) : t >= n}

RECURSIVE SumSizes(_, _)
SumSizes(st, keys) ==
    IF keys = {} THEN 0
    ELSE LET k == CHOOSE x \in keys : TRUE
         IN StatSize(st[k].body) + SumSizes(st, keys \ {k})

\* C23: purge_temp_files deletes exactly the objects under .deltaglider/tmp/ whose
\* dg-expires-at is present, is a date and has passed, except those whose head or
\* delete failed; every failure is counted in error_count and the other objects are
\* still processed; nothing else changes; deleted_count and total_size_freed are the
\* number and the summed sizes of the objects deleted
C23_Purge ==
    [][PurgeStep =>
        LET res == last'.res
            deleted == DOMAIN store \ DOMAIN store'
            listed == {k \in DOMAIN store : StartsWith(k, TmpPrefix)}
            head_failed == listed \cap last'.fail_head
            delete_failed == (Purgeable(store, now) \ head_failed) \cap last'.fail_delete
        IN /\ deleted = Purgeable(store, now) \ (head_failed \cup delete_failed)
           /\ DOMAIN store' \subseteq DOMAIN store
           /\ \A k \in DOMAIN store' : store'[k] = store[k]
           /\ res.error_count = Cardinality(head_failed \cup delete_failed)
           /\ res.deleted_count = Cardinality(deleted)
           /\ res.total_size_freed = SumSizes(store, deleted)
      ]_vars

\* a purge met a delete failure on one expired temp object, counted it, and went on to
\* delete another one; the temp objects without a usable expiry are still there
C23_Witness ==
    /\ last.op = "purge"
    /\ last.res.error_count = 1 /\ last.fail_delete = {TmpPrefix \o V1}
    /\ last.res.deleted_count = 1
    /\ TmpPrefix \o V1 \in DOMAIN store
    /\ TmpPrefix \o V2 \notin DOMAIN store
    /\ {TmpPrefix \o RawBin, TmpPrefix \o Photo, TmpPrefix \o <<"sub">>} \subseteq DOMAIN store

\* C24: a temp object rehydrate_for_download creates at clock reading t with ttl carries
\* dg-expires-at = t + ttl; a purge whose clock reads less than t + ttl keeps it, and a
\* purge whose clock reads t + ttl or more, with no store failure on it, deletes it
C24_TempLifecycle ==
    [][/\ RehydrateStep =>
            \A k \in last'.res.temp_key : ExpiryOf(store'[k]) = {now + last'.ttl}
       /\ PurgeStep =>
            \A k \in DOMAIN hist.temps \cap DOMAIN store :
                /\ now < hist.temps[k] => k \in DOMAIN store'
                /\ (now >= hist.temps[k] /\ k \notin (last'.fail_head \cup last'.fail_delete))
                        => k \notin DOMAIN store'
      ]_vars

\* after the clock advanced, a purge deleted a temp object that rehydrate had created
\* and whose dg-expires-at is the clock reading of that purge
C24_Witness ==
    /\ last.op = "purge" /\ last.res.deleted_count >= 1
    /\ \E k \in DOMAIN hist.temps :
          /\ k \notin DOMAIN store
          /\ hist.temps[k] = last.t
          /\ last.t >= 1

----------------------------------------------------------------------------
(* client_operations/stats.py: get_bucket_stats *)

\* the default of max_iterations
DefaultMaxIterations == 10000

IterationsExceededNever(iteration_count, max_iterations) == FALSE

\* iteration_count > max_iterations
IterationsExceeded(iteration_count, max_iterations) == iteration_count > max_iterations

RECURSIVE SumSeq(_)
SumSeq(ns) == IF ns = <<>> THEN 0 ELSE Head(ns) + SumSeq(Tail(ns))

RECURSIVE Take(_, _)
\* the first n elements of a sequence
Take(seq, n) ==
    IF n = 0 \/ seq = <<>> THEN <<>> ELSE <<Head(seq)>> \o Take(Tail(seq), n - 1)

\* storage.list_objects(prefix="", max_keys, start_after): the next max_keys object
\* dicts after the token, in key order; start_after is a set (empty: None)
ListObjects(st, max_keys, start_after) ==
    LET keys == SortKeys({k \in DOMAIN st : \A tok \in start_after : KeyLess(tok, k)})
        page == Take(keys, max_keys)
    IN [i \in 1 .. Len(page) |-> [key |-> page[i], size |-> StatSize(st[page[i]].body)]]

\* the sizes the model's objects and their file_size metadata can have
Sizes == 0 .. 3
\* int(str): the set holding the number, empty on ValueError
IntParse(str) == {n \in Sizes : ToString(n) = str}

\* _fetch_delta_metadata: the metadata of the delta keys whose head answered in time
\* with non-empty metadata
FetchDeltaMetadata(st, fetched) ==
    [k \in {x \in fetched : x \in DOMAIN st /\ st[x].meta # EmptyMap} |-> st[k].meta]

StatsIsReference(key) == EndsWith(key, <<SLASH, REFERENCE_BIN>>) \/ key = <<REFERENCE_BIN>>

\* _build_object_info_list: original_size = int(metadata.get("file_size", size)),
\* size on ValueError, for a delta with metadata; size otherwise
OriginalSize(obj_dict, metadata_map) ==
    LET key == obj_dict.key
        metadata == IF key \in DOMAIN metadata_map THEN metadata_map[key] ELSE EmptyMap
        file_size == MetaGet(metadata, "file_size")
        parsed == IntParse(CHOOSE x \in file_size : TRUE)
    IN IF IsDeltaKey(key) /\ metadata # EmptyMap /\ file_size # {} /\ parsed # {}
       THEN CHOOSE n \in parsed : TRUE
       ELSE obj_dict.size

BuildObjectInfoList(raw_objects, metadata_map) ==
    [i \in 1 .. Len(raw_objects) |->
        LET key == raw_objects[i].key
        IN [key |-> key, size |-> raw_objects[i].size,
            original_size |-> OriginalSize(raw_objects[i], metadata_map),
            compressed_size |-> raw_objects[i].size,
            is_delta |-> IsDeltaKey(key),
            reference_key |-> IF key \in DOMAIN metadata_map
                              THEN MetaGet(metadata_map[key], "ref_key") ELSE {}]]

\* the deltaspace of a reference key: key.rsplit("/reference.bin", 1)[0], "" without "/"
StatsDeltaspace(key) == IF HasSlash(key) THEN SubSeq(key, 1, Len(key) - 2) ELSE <<>>

\* reference_files: deltaspace -> size, a later entry replacing an earlier one
ReferenceFiles(all_objects) ==
    LET idx == {i \in 1 .. Len(all_objects) : StatsIsReference(all_objects[i].key)}
        last_of(d) == CHOOSE i \in idx :
                        /\ StatsDeltaspace(all_objects[i].key) = d
                        /\ \A j \in idx : StatsDeltaspace(all_objects[j].key) = d => j <= i
    IN [d \in {StatsDeltaspace(all_objects[i].key) : i \in idx} |->
            all_objects[last_of(d)].size]

RECURSIVE SumValues(_)
SumValues(f) ==
    IF DOMAIN f = {} THEN 0
    ELSE LET d == CHOOSE x \in DOMAIN f : TRUE
         IN f[d] + SumValues([x \in DOMAIN f \ {d} |-> f[x]])

\* the contribution of one delta to total_original_size
DeltaOriginal(obj) ==
    IF obj.original_size # 0 /\ obj.original_size # obj.size THEN obj.original_size
    ELSE obj.size

IncludeReferencesAlways(delta_count, total_reference_size) == total_reference_size > 0

\* delta_count > 0 and total_reference_size > 0
IncludeReferences(delta_count, total_reference_size) ==
    delta_count > 0 /\ total_reference_size > 0

ZeroStats ==
    [object_count |-> 0, total_size |-> 0, compressed_size |-> 0, space_saved |-> 0,
     average_compression_ratio |-> [num |-> 0, den |-> 1], delta_objects |-> 0,
     direct_objects |-> 0, orphaned |-> {}]

GetBucketStatsPropagates(collect_raised, stats) == [raised |-> collect_raised, stats |-> stats]

\* get_bucket_stats: try ... except Exception: return the empty BucketStats
GetBucketStatsGuard(collect_raised, stats) ==
    [raised |-> FALSE, stats |-> IF collect_raised THEN ZeroStats ELSE stats]

\* _calculate_bucket_statistics; the ratio is kept as a fraction, orphaned is the set of
\* deltaspaces _log_orphaned_references reports
CalculateBucketStatistics(all_objects) ==
    LET n == Len(all_objects)
        refs == {i \in 1 .. n : StatsIsReference(all_objects[i].key)}
        delta_count == Cardinality({i \in 1 .. n : i \notin refs /\ all_objects[i].is_delta})
        direct_count == Cardinality({i \in 1 .. n : i \notin refs /\ ~all_objects[i].is_delta})
        reference_files == ReferenceFiles(all_objects)
        original == SumSeq([i \in 1 .. n |->
                        IF i \in refs THEN 0
                        ELSE IF all_objects[i].is_delta THEN DeltaOriginal(all_objects[i])
                        ELSE all_objects[i].size])
        compressed == SumSeq([i \in 1 .. n |-> IF i \in refs THEN 0 ELSE all_objects[i].size])
        total_reference_size == SumValues(reference_files)
        total_compressed_size ==
            IF IncludeReferences(delta_count, total_reference_size)
            THEN compressed + total_reference_size ELSE compressed
        space_saved == original - total_compressed_size
    IN [object_count |-> delta_count + direct_count,
        total_size |-> original,
        compressed_size |-> total_compressed_size,
        space_saved |-> space_saved,
        average_compression_ratio |->
            IF original > 0 THEN [num |-> space_saved, den |-> original]
            ELSE [num |-> 0, den |-> 1],
        delta_objects |-> delta_count,
        direct_objects |-> direct_count,
        orphaned |-> IF delta_count = 0 /\ total_reference_size > 0
                     THEN DOMAIN reference_files ELSE {}]

\* get_bucket_stats after the collection returned raw_objects; fetched are the delta
\* keys whose metadata head answered in time
BucketStatsOf(st, raw_objects, detailed_stats, fetched) ==
    LET delta_keys == {raw_objects[i].key : i \in {j \in 1 .. Len(raw_objects) :
                                                    IsDeltaKey(raw_objects[j].key)}}
        metadata_map == IF detailed_stats /\ delta_keys # {}
                        THEN FetchDeltaMetadata(st, fetched \cap delta_keys)
                        ELSE EmptyMap
    IN CalculateBucketStatistics(BuildObjectInfoList(raw_objects, metadata_map))

----------------------------------------------------------------------------
(* Stats specification: one get_bucket_stats call over a fixed bucket, one action
   per iteration of the pagination loop; the store chooses what each list call
   answers and which metadata heads answer in time *)

RelRef == ReferenceKey(Rel)

\* a deltaspace with two deltas, one with bare and one with dg- metadata keys, and a
\* direct upload
BucketHealthy ==
    (RelRef :> [body |-> Raw(0), meta |-> ReferenceMetaToDict(V1, Sha256(Raw(0)))])
        @@ (DeltaKey(Rel, V1) :> [body |-> [fmt |-> "vcdiff", v |-> 0],
                                  meta |-> [file_size |-> "3", ref_key |-> RelRef]])
        @@ (DeltaKey(Rel, V2) :> [body |-> [fmt |-> "vcdiff", v |-> 1],
                                  meta |-> ("dg-file-size" :> "3") @@ ("dg-ref-key" :> RelRef)])
        @@ (DirectKey(Rel, Photo) :> [body |-> Raw(1), meta |-> DirectMetadata(Photo, Raw(1))])

\* a reference without deltas next to a deltaspace whose reference is gone and whose
\* delta is of an empty file
BucketForeignDelta ==
    (RelRef :> [body |-> Raw(0), meta |-> ReferenceMetaToDict(V1, Sha256(Raw(0)))])
        @@ (DeltaKey(Rel2, V1) :> [body |-> [fmt |-> "vcdiff", v |-> 0],
                                   meta |-> [file_size |-> "0", ref_key |-> ReferenceKey(Rel2)]])

\* a reference without deltas and a direct upload
BucketOrphan ==
    (RelRef :> [body |-> Raw(0), meta |-> ReferenceMetaToDict(V1, Sha256(Raw(0)))])
        @@ (DirectKey(Rel, Photo) :> [body |-> Raw(1), meta |-> DirectMetadata(Photo, Raw(1))])

\* the root deltaspace, the delta's file_size not a number
BucketRoot ==
    (ReferenceKey(Root) :> [body |-> Raw(0), meta |-> ReferenceMetaToDict(V1, Sha256(Raw(0)))])
        @@ (DeltaKey(Root, V1) :> [body |-> [fmt |-> "vcdiff", v |-> 0],
                                   meta |-> [file_size |-> "unknown",
                                             ref_key |-> ReferenceKey(Root)]])

StatsBucketNames == {"healthy", "foreign_delta", "orphan", "root", "empty"}
StatsBucket(name) ==
    CASE name = "healthy" -> BucketHealthy
      [] name = "foreign_delta" -> BucketForeignDelta
      [] name = "orphan" -> BucketOrphan
      [] name = "root" -> BucketRoot
      [] name = "empty" -> EmptyMap

StatsProc == procs["stats"]
DeltaKeysOf(st) == {k \in DOMAIN st : IsDeltaKey(k)}

InitStats ==
    /\ \E name \in StatsBucketNames : store = StatsBucket(name)
    /\ cache = EmptyMap
    /\ last = NoOp
    /\ nops = 0
    /\ hist = [list_calls |-> 0]
    /\ \E detailed_stats \in BOOLEAN :
          procs = ("stats" :> [pc |-> "collect", raw_objects |-> <<>>, start_after |-> {},
                               iteration_count |-> 0, detailed_stats |-> detailed_stats])
    /\ reader = IdleReader
    /\ now = 0

\* get_bucket_stats returns: phases 2 to 5 over the objects collected
StatsReturn(raw_objects, collect_raised, stop, fetched) ==
    /\ LET r == GetBucketStatsGuard(collect_raised,
                    BucketStatsOf(store, raw_objects, StatsProc.detailed_stats, fetched))
       IN last' = [op |-> "stats", res |-> r.stats, raised |-> r.raised, stop |-> stop,
                   collected |-> raw_objects, fetched |-> fetched,
                   detailed_stats |-> StatsProc.detailed_stats]
    /\ procs' = [procs EXCEPT !["stats"].pc = "done", !["stats"].raw_objects = raw_objects,
                              !["stats"].iteration_count = @ + 1]
    /\ nops' = nops + 1
    /\ UNCHANGED <<store, cache, reader, now>>

\* an iteration whose list call answers is_truncated with a continuation token
StatsListMore(tok) ==
    /\ StatsProc.pc = "collect"
    /\ ~IterationsExceeded(StatsProc.iteration_count + 1, MaxIterations)
    /\ procs' = [procs EXCEPT
                    !["stats"].raw_objects = @ \o ListObjects(store, MaxKeys, StatsProc.start_after),
                    !["stats"].start_after = {tok},
                    !["stats"].iteration_count = @ + 1]
    /\ hist' = [list_calls |-> hist.list_calls + 1]
    /\ UNCHANGED <<store, cache, last, nops, reader, now>>

\* an iteration whose list call answers not truncated, or truncated without a token
StatsListLast(is_truncated, fetched) ==
    /\ StatsProc.pc = "collect"
    /\ ~IterationsExceeded(StatsProc.iteration_count + 1, MaxIterations)
    /\ hist' = [list_calls |-> hist.list_calls + 1]
    /\ StatsReturn(StatsProc.raw_objects \o ListObjects(store, MaxKeys, StatsProc.start_after),
                   FALSE, IF is_truncated THEN "no_token" ELSE "complete", fetched)

\* an iteration whose list call raises
StatsListFails(fetched) ==
    /\ StatsProc.pc = "collect"
    /\ ~IterationsExceeded(StatsProc.iteration_count + 1, MaxIterations)
    /\ hist' = [list_calls |-> hist.list_calls + 1]
    /\ StatsReturn(StatsProc.raw_objects, Len(StatsProc.raw_objects) = 0, "list_failed",
                   fetched)

\* the iteration that exceeds max_iterations
StatsCapReached(fetched) ==
    /\ StatsProc.pc = "collect"
    /\ IterationsExceeded(StatsProc.iteration_count + 1, MaxIterations)
    /\ UNCHANGED hist
    /\ StatsReturn(StatsProc.raw_objects, FALSE, "max_iterations", fetched)

NextStats ==
    \/ \E tok \in DOMAIN store : StatsListMore(tok)
    \/ \E is_truncated \in BOOLEAN, fetched \in SUBSET DeltaKeysOf(store) :
            StatsListLast(is_truncated, fetched)
    \/ \E fetched \in SUBSET DeltaKeysOf(store) : StatsListFails(fetched)
    \/ \E fetched \in SUBSET DeltaKeysOf(store) : StatsCapReached(fetched)

SpecStats == InitStats /\ [][NextStats]_vars

StatsReturnStep == nops' = nops + 1 /\ last'.op = "stats"

\* C25: the pagination loop ends under every store behaviour: with the default
\* max_iterations the 10,000th iteration still lists and the 10,001st does not; it
\* never issues more than max_iterations list calls; an answer is_truncated without a
\* token ends it at once; and when the cap or the missing token ends it, the call
\* returns statistics of everything collected up to then without raising
C25_PaginationTerminates ==
    /\ ~IterationsExceeded(DefaultMaxIterations, DefaultMaxIterations)
    /\ IterationsExceeded(DefaultMaxIterations + 1, DefaultMaxIterations)
    /\ [][/\ hist'.list_calls <= MaxIterations
          /\ (StatsReturnStep /\ last'.stop = "no_token") =>
                /\ hist'.list_calls = hist.list_calls + 1
                /\ procs'["stats"].pc = "done"
                /\ last'.collected
                      = StatsProc.raw_objects \o ListObjects(store, MaxKeys, StatsProc.start_after)
          /\ (StatsReturnStep /\ last'.stop = "max_iterations") =>
                /\ hist'.list_calls = MaxIterations
                /\ last'.collected = StatsProc.raw_objects
          /\ (StatsReturnStep /\ last'.stop \in {"no_token", "max_iterations"}) =>
                /\ ~last'.raised
                /\ last'.res = BucketStatsOf(store, last'.collected, last'.detailed_stats,
                                             last'.fetched)
       ]_vars

\* the store answered every list call is_truncated with the same token; the loop ended
\* at the cap and returned the objects collected, the page after that token again
\* and again
C25_Witness ==
    /\ last.op = "stats" /\ last.stop = "max_iterations"
    /\ hist.list_calls = MaxIterations
    /\ Len(last.collected) = MaxIterations * MaxKeys
    /\ \A i \in 2 .. Len(last.collected) : last.collected[i].key = DeltaKey(Rel, V2)
    /\ last.res.delta_objects = Len(last.collected) - 1

NumericFields ==
    {"object_count", "total_size", "compressed_size", "space_saved", "delta_objects",
     "direct_objects"}

RefsCollected(collected) ==
    {collected[i].key : i \in {j \in 1 .. Len(collected) : StatsIsReference(collected[j].key)}}

\* a collected delta whose ref_key names a collected reference.bin
SomeDeltaReferences(st, collected) ==
    \E i \in 1 .. Len(collected) :
        /\ IsDeltaKey(collected[i].key)
        /\ ResolveMetadata(st[collected[i].key].meta, "ref_key") \cap RefsCollected(collected) # {}

\* the summed stored sizes of the collected objects that are not references
StoredSizes(collected) ==
    SumSeq([i \in 1 .. Len(collected) |->
                IF StatsIsReference(collected[i].key) THEN 0 ELSE collected[i].size])

RefSizes(st, collected) ==
    SumValues([k \in RefsCollected(collected) |-> StatSize(st[k].body)])

\* C27: the sizes of the collected reference.bin files are part of compressed_size
\* when some collected delta references one of them; otherwise they are left out and
\* the references are reported as orphaned
C27_ReferenceAccounting ==
    [][StatsReturnStep =>
          LET collected == last'.collected
          IN IF SomeDeltaReferences(store, collected)
             THEN /\ last'.res.compressed_size
                        = StoredSizes(collected) + RefSizes(store, collected)
                  /\ last'.res.orphaned = {}
             ELSE /\ last'.res.compressed_size = StoredSizes(collected)
                  /\ last'.res.orphaned
                        = {StatsDeltaspace(k) : k \in RefsCollected(collected)}
      ]_vars

\* statistics over rel/reference.bin and a delta of another deltaspace: no orphan is
\* reported
C27_Counterexample ==
    /\ last.op = "stats" /\ last.stop = "complete"
    /\ RefsCollected(last.collected) = {RelRef}
    /\ ~SomeDeltaReferences(store, last.collected)
    /\ last.res.orphaned = {}

\* the file_size a delta's metadata gives, when the detailed mode fetched it and it
\* is a number (the empty set: not known)
KnownFileSize(st, key, detailed_stats, fetched) ==
    IF detailed_stats /\ key \in fetched /\ key \in DOMAIN st
    THEN {n \in Sizes : MetaGet(st[key].meta, "file_size") = {ToString(n)}}
    ELSE {}

\* what one collected object is to add to total_size
ExpectedOriginal(st, obj_dict, detailed_stats, fetched) ==
    LET known == KnownFileSize(st, obj_dict.key, detailed_stats, fetched)
    IN IF StatsIsReference(obj_dict.key) THEN 0
       ELSE IF IsDeltaKey(obj_dict.key) /\ known # {} THEN CHOOSE n \in known : TRUE
       ELSE obj_dict.size

\* C28: in every BucketStats returned space_saved = total_size - compressed_size, the
\* ratio is space_saved / total_size (0 when total_size is 0), object_count =
\* delta_objects + direct_objects counts the collected objects other than reference.bin,
\* a direct object adds its size to both totals, a delta adds its stored size to
\* compressed_size and to total_size its metadata file_size when known, else its
\* stored size
C28_StatsArithmetic ==
    [][StatsReturnStep =>
          LET res == last'.res
              collected == last'.collected
              n == Len(collected)
              others == {i \in 1 .. n : ~StatsIsReference(collected[i].key)}
              ratio == res.average_compression_ratio
          IN /\ res.space_saved = res.total_size - res.compressed_size
             /\ IF res.total_size = 0 THEN ratio.num = 0
                ELSE ratio.num * res.total_size = res.space_saved * ratio.den /\ ratio.den > 0
             /\ res.object_count = res.delta_objects + res.direct_objects
             /\ res.object_count = Cardinality(others)
             /\ res.delta_objects = Cardinality({i \in others : IsDeltaKey(collected[i].key)})
             /\ res.compressed_size - StoredSizes(collected) \in {0, RefSizes(store, collected)}
             /\ res.total_size
                  = SumSeq([i \in 1 .. n |->
                              ExpectedOriginal(store, collected[i], last'.detailed_stats,
                                               last'.fetched)])
      ]_vars

\* detailed statistics over a delta whose metadata gives file_size 0: the delta's
\* stored size was added to total_size
C28_Counterexample ==
    /\ last.op = "stats" /\ last.stop = "complete" /\ last.detailed_stats
    /\ last.fetched = {DeltaKey(Rel2, V1)}
    /\ KnownFileSize(store, DeltaKey(Rel2, V1), TRUE, last.fetched) = {0}
    /\ last.res.total_size = StatSize(store[DeltaKey(Rel2, V1)].body)

----------------------------------------------------------------------------
(* Put/delete specification: delete of the only delta of the deltaspace "rel" runs *)
(* concurrently with a put of a delta candidate into "rel"; every object-store     *)
(* call of either operation is one step (no lock is held across calls)             *)

\* the deltaspace after put(rel, v1.zip) with content c
DeltaspaceAfterPut(c) == PutOp(EmptyMap, EmptyMap, Rel, V1, Raw(c))

InitPutDelete ==
    /\ \E c \in Contents, warm \in BOOLEAN, name \in RaceNames, f \in Contents :
            /\ store = DeltaspaceAfterPut(c).store
            /\ cache = IF warm THEN DeltaspaceAfterPut(c).cache ELSE EmptyMap
            /\ procs = ("put" :> [pc |-> "head", prefix |-> Rel, name |-> name,
                                  file |-> Raw(f), saw_reference |-> FALSE,
                                  ref_sha256 |-> {}, delta |-> {}, encode_ref |-> {},
                                  operation |-> "", err |-> ""])
                    @@ ("del" :> [pc |-> "head", key |-> DeltaKey(Rel, V1),
                                  remaining_deltas |-> {}, cleaned_reference |-> {},
                                  err |-> ""])
    /\ last = NoOp
    /\ nops = 0
    /\ hist = [refDeleted |-> FALSE, storeFailed |-> FALSE, ownRefs |-> {}]
    /\ reader = IdleReader
    /\ now = 0

\* delete: head of the object (lines 635-637)
DelHead ==
    /\ procs["del"].pc = "head"
    /\ procs' = [procs EXCEPT !["del"].pc =
                    IF StorageHead(store, procs["del"].key) = {} THEN "failed"
                    ELSE "delete_delta",
                 !["del"].err =
                    IF StorageHead(store, procs["del"].key) = {} THEN "NotFoundError"
                    ELSE ""]
    /\ UNCHANGED <<store, cache, last, nops, hist, reader, now>>

\* _delete_delta: delete of the delta (line 712)
DelDeleteDelta ==
    /\ procs["del"].pc = "delete_delta"
    /\ store' = StorageDelete(store, procs["del"].key)
    /\ procs' = [procs EXCEPT !["del"].pc =
                    IF HasSlash(procs["del"].key) THEN "list" ELSE "done"]
    /\ UNCHANGED <<cache, last, nops, hist, reader, now>>

\* _delete_delta: listing of the deltaspace for remaining deltas (lines 723-729)
DelListRemaining ==
    /\ procs["del"].pc = "list"
    /\ LET remaining_deltas == RemainingDeltas(store, procs["del"].key)
       IN procs' = [procs EXCEPT !["del"].remaining_deltas = remaining_deltas,
                                 !["del"].pc = IF remaining_deltas = {} THEN "head_ref"
                                               ELSE "done"]
    /\ UNCHANGED <<store, cache, last, nops, hist, reader, now>>

\* _delete_delta: head of reference.bin (lines 730-732)
DelHeadReference ==
    /\ procs["del"].pc = "head_ref"
    /\ procs' = [procs EXCEPT !["del"].pc =
                    IF StorageHead(store, ReferenceKey(DirName(procs["del"].key))) = {}
                    THEN "done" ELSE "delete_ref"]
    /\ UNCHANGED <<store, cache, last, nops, hist, reader, now>>

\* _delete_delta: delete of reference.bin (lines 733-739)
DelDeleteReference ==
    /\ procs["del"].pc = "delete_ref"
    /\ store' = StorageDelete(store, ReferenceKey(DirName(procs["del"].key)))
    /\ procs' = [procs EXCEPT !["del"].pc = "evict",
                              !["del"].cleaned_reference =
                                    {ReferenceKey(DirName(procs["del"].key))}]
    /\ UNCHANGED <<cache, last, nops, hist, reader, now>>

\* _delete_delta: eviction of the deltaspace from the cache (lines 741-744)
DelEvict ==
    /\ procs["del"].pc = "evict"
    /\ cache' = Evict(cache, DirName(procs["del"].key))
    /\ procs' = [procs EXCEPT !["del"].pc = "done"]
    /\ UNCHANGED <<store, last, nops, hist, reader, now>>

NextPutDelete ==
    \/ PutHead("put")
    \/ PutUploadReference("put")
    \/ PutRehead("put")
    \/ PutUploadZeroDelta("put")
    \/ PutFetchReference("put")
    \/ PutUploadDelta("put")
    \/ DelHead
    \/ DelDeleteDelta
    \/ DelListRemaining
    \/ DelHeadReference
    \/ DelDeleteReference
    \/ DelEvict

SpecPutDelete == InitPutDelete /\ [][NextPutDelete]_vars

\* C31: no interleaving of the delete of the only delta with the put ends with the
\* put's new '*.delta' stored while the delete's orphan cleanup has removed the
\* deltaspace's reference.bin
C31_PutDeleteRace ==
    (procs["put"].pc = "done" /\ procs["del"].pc = "done") =>
        ~ /\ procs["put"].operation = "create_delta"
          /\ DeltaKey(Rel, procs["put"].name) \in DOMAIN store
          /\ procs["del"].cleaned_reference = {ReferenceKey(Rel)}
          /\ ReferenceKey(Rel) \notin DOMAIN store

====
